---- MODULE Spec2Model ----
(***************************************************************************)
(* Real-time coordination engine of the E-Boda backend: the ride lifecycle *)
(* handlers and the pending-rides queue (routes/ride_routes.py) and the    *)
(* WebSocket connection manager with its rooms (sockets/ride_socket.py).   *)
(*                                                                         *)
(* Handlers are coroutines on one asyncio event loop.  The table locks     *)
(* (_connections_lock, _rooms_lock) guard blocks without any await, so     *)
(* they are never contended and acquiring them never suspends: a handler   *)
(* runs atomically up to its first real I/O await (websocket accept,       *)
(* close, send, receive).  The actions below are cut at those awaits.      *)
(***************************************************************************)
EXTENDS Integers, Sequences, FiniteSets, TLC

\* ------------------------------------------------------------------------
\* Bounds of the model
\* ------------------------------------------------------------------------
MaxRides == 1
MaxRooms == 2
MaxTime == 11
MaxHandles == 2
MaxTasks == 2
\* the millisecond clock advances StepMs at a time, MaxMs in all
StepMs == 100
MaxMs == 800
\* the second clock advances StepS at a time, MaxS in all
StepS == 15
MaxS == 60
\* inbound messages of one session
MaxMsgs == 2

\* ------------------------------------------------------------------------
\* Program constants
\* ------------------------------------------------------------------------
PENDING_RIDE_TTL_MINUTES == 10
MAX_ASSIGNMENT_ATTEMPTS == 5
LOCATION_THROTTLE_MS == 400
LOCATION_MIN_DISTANCE_METERS == 1
HEARTBEAT_TIMEOUT_SECONDS == 45

None == "none"
Riders == {"R1"}
Drivers == {"D1", "D2"}
Users == Riders \cup Drivers
RideIds == 1..MaxRides
\* ride ids a client may name: those of the store and ids of no ride
RoomIds == 1..MaxRooms
Handles == 1..MaxHandles
Tasks == 1..MaxTasks

role(u) == IF u \in Drivers THEN "driver" ELSE "rider"

Statuses == {"pending", "accepted", "in_progress", "completed", "cancelled"}
\* StatusUpdate.status pattern: ^(accepted|in_progress|completed|cancelled)$
StatusUpdateValues == {"accepted", "in_progress", "completed", "cancelled"}

\* routes/ride_routes.py VALID_STATE_TRANSITIONS; any other key has no entry
VALID_STATE_TRANSITIONS(s) ==
    CASE s = "pending" -> {"accepted", "cancelled"}
      [] s = "accepted" -> {"in_progress", "cancelled"}
      [] s = "in_progress" -> {"completed", "cancelled"}
      [] s = "completed" -> {}
      [] s = "cancelled" -> {}
      [] OTHER -> {}

validate_ride_transition_any(current_status, new_status) == TRUE

\* ride_routes.py:69-72
validate_ride_transition(current_status, new_status) ==
    new_status \in VALID_STATE_TRANSITIONS(current_status)

SOCKET_TABLE_STALE(s) ==
    CASE s = "pending" -> {"accepted", "cancelled"}
      [] s = "accepted" -> {"in_progress", "cancelled"}
      [] s = "in_progress" -> {"completed"}
      [] OTHER -> {}

\* sockets/ride_socket.py keeps its own copy of the table
SOCKET_VALID_STATE_TRANSITIONS(s) ==
    CASE s = "pending" -> {"accepted", "cancelled"}
      [] s = "accepted" -> {"in_progress", "cancelled"}
      [] s = "in_progress" -> {"completed", "cancelled"}
      [] s = "completed" -> {}
      [] s = "cancelled" -> {}
      [] OTHER -> {}

is_valid_state_transition(current_status, new_status) ==
    new_status \in SOCKET_VALID_STATE_TRANSITIONS(current_status)

VARIABLES
    rides,                 \* ride store: id -> [status, rider, driver, created_at]
    is_available,          \* User.is_available of each driver
    PENDING_RIDES_QUEUE,   \* ride id -> [created_at, attempts, rider_id]
    now,                   \* wall clock, minutes
    allow_trip_cancellation, \* env ALLOW_CANCELLATION_DURING_TRIP
    rooms,                 \* manager._rooms: ride id -> participants
    connections,           \* manager._connections: user -> handle (0: none)
    conn,                  \* per websocket handle: the ClientConnection and its endpoint
    closing,               \* handles whose websocket.close() is in flight
    now_ms,                \* wall clock, milliseconds (time.time() * 1000)
    now_s,                 \* wall clock, seconds (time.time()), as the heartbeats read it
    probe,                 \* inputs and results of the transition validators
    tasks,                 \* send_to_user calls in progress, one coroutine each
    write_lock,            \* ClientConnection.write_lock of each handle: held or not
    ball,                  \* a broadcast_to_all call in progress
    last,                  \* history: the last operation and its outcome
    scen,                  \* history: progress of the one-retry-per-minute scenario
    fails,                 \* history: retries of each ride that found no driver
    located,               \* history: the last location each ride's driver had cached
    sweep                  \* _cleanup_stale_connections: the pass in progress

rideVars == <<rides, is_available, PENDING_RIDES_QUEUE, now, allow_trip_cancellation>>
connVars == <<connections, conn, closing>>
pureVars == <<now_ms, probe, now_s>>
sendVars == <<tasks, write_lock, ball>>
vars == <<rides, is_available, PENDING_RIDES_QUEUE, now, allow_trip_cancellation,
          rooms, connections, conn, closing, now_ms, now_s, probe, tasks, write_lock,
          ball, last, scen, fails, located, sweep>>

\* a coordinate pair, or None (set = FALSE).  Coordinates are counted in grid
\* units of 1/1110000 degree: one unit of latitude is 0.1 m and one unit of
\* longitude 0.09 m in the distance approximation of should_throttle_location
NoCoords == [set |-> FALSE, lat |-> 0, lon |-> 0]
Coords(lat, lon) == [set |-> TRUE, lat |-> lat, lon |-> lon]
Lats == {0, 5, 8, 11}
Lons == {0, 8, 12}
Points == {Coords(lat, lon) : lat \in Lats, lon \in Lons}
Origin == {Coords(0, 0)}

NoRide == [status |-> "absent", rider |-> None, driver |-> None, created_at |-> 0]

\* a websocket handle: the endpoint's position (pc), the socket (closed) and
\* the ClientConnection made for it
NoConn == [user |-> None, pc |-> "unused", is_alive |-> FALSE, closed |-> FALSE,
           accepted |-> FALSE, joined_rooms |-> {}, old |-> 0, last_heartbeat |-> 0,
           last_location_broadcast |-> 0, last_location_coords |-> NoCoords,
           received |-> 0, handled |-> 0]

\* a send_to_user call: where its coroutine stands (pc), the user and the
\* connection it writes to, and who called it
NoTask == [pc |-> "idle", to |-> None, handle |-> 0, via |-> "none"]

\* a broadcast_to_all call: the snapshot entries still to visit, the entry
\* being written to, and the users whose send failed
NoBall == [pc |-> "idle", todo |-> {}, cur |-> 0, disconnected |-> {}]

\* a pass of _cleanup_stale_connections: the users of its list still to be
\* disconnected, and the handle whose close the pass awaits (0: none)
NoSweep == [pc |-> "idle", todo |-> {}, wait |-> 0]

NoProbe == [pc |-> "off", current |-> None, new |-> None,
            routes |-> FALSE, socket |-> FALSE]

\* time.time() * 1000 at start: far more than LOCATION_THROTTLE_MS after the epoch
EpochMs == 1000

\* the record kept of the last operation
NoOp == [op |-> "init", ride |-> 0, from |-> "absent",
         result |-> "none", calls |-> {}, written |-> {}, att |-> -1, age |-> 0,
         searched |-> FALSE, arg |-> None, handle |-> 0, popped |-> {},
         had |-> FALSE, pre |-> {}, ret |-> FALSE, raised |-> FALSE,
         detail |-> "none",
         response |-> [ride_status |-> "none", last_driver_location |-> NoCoords],
         loc |-> [t |-> 0, coords |-> NoCoords, point |-> NoCoords, at |-> 0]]

InitStore ==
    /\ rides = [r \in RideIds |-> NoRide]
    /\ is_available = [d \in Drivers |-> FALSE]
    /\ PENDING_RIDES_QUEUE = <<>>
    /\ now = 0
    /\ allow_trip_cancellation \in BOOLEAN
    /\ last = NoOp
    /\ scen = [r \in RideIds |-> -1]
    /\ fails = [r \in RideIds |-> 0]
    /\ located = [r \in RideIds |-> NoCoords]
    /\ sweep = NoSweep

\* no send in progress
InitSends ==
    /\ tasks = [t \in Tasks |-> NoTask]
    /\ write_lock = [h \in Handles |-> FALSE]
    /\ ball = NoBall

InitManager ==
    /\ rooms = <<>>
    /\ connections = [u \in Users |-> 0]
    /\ conn = [h \in Handles |-> NoConn]
    /\ closing = {}
    /\ now_ms = EpochMs
    /\ now_s = 0
    /\ InitSends

Init ==
    /\ InitStore
    /\ InitManager
    /\ probe = NoProbe

\* ------------------------------------------------------------------------
\* Dictionaries (partial functions)
\* ------------------------------------------------------------------------
Put(f, k, v) == [x \in DOMAIN f \cup {k} |-> IF x = k THEN v ELSE f[x]]
Del(f, k) == [x \in DOMAIN f \ {k} |-> f[x]]

\* ------------------------------------------------------------------------
\* Outbound sends (ConnectionManager.send_to_user), seen from a handler
\* ------------------------------------------------------------------------
\* send_to_user returns False at once when the user has no registered
\* connection or the connection is marked dead
Sendable(regs, c, tos) ==
    {u \in tos : regs[u] # 0 /\ c[regs[u]].is_alive}

\* a write on a handle that was closed raises; any other write may time out
CanSucceed(regs, c, tos) ==
    {u \in Sendable(regs, c, tos) : ~c[regs[u]].closed}

\* every send that does not complete marks its connection dead
AfterSends(regs, c, tos, ok) ==
    [h \in Handles |->
        IF \E u \in Sendable(regs, c, tos) \ ok : regs[u] = h
        THEN [c[h] EXCEPT !.is_alive = FALSE]
        ELSE c[h]]

Msg(to, event, reason) == [to |-> to, event |-> event, reason |-> reason]
Tos(calls) == {m.to : m \in calls}

\* ------------------------------------------------------------------------
\* Rooms
\* ------------------------------------------------------------------------
\* RideRoom
NewRoom == [participants |-> {}, last_driver_location |-> NoCoords]

get_room_participants(rms, r) ==
    IF r \in DOMAIN rms THEN rms[r].participants ELSE {}

\* RideRoomsProxy as the route handlers use it:
\*   if id not in ride_rooms: ride_rooms[id] = set()
\*   ride_rooms[id].add(a); ride_rooms[id].add(b)
\* The participants set is changed in place; no ClientConnection.joined_rooms
\* is touched.
ProxyAdd(rms, r, us) ==
    LET room == IF r \in DOMAIN rms THEN rms[r] ELSE NewRoom
    IN Put(rms, r, [room EXCEPT !.participants = @ \cup us])

\* ------------------------------------------------------------------------
\* Ride lifecycle handlers (routes/ride_routes.py)
\* ------------------------------------------------------------------------
Op(op, u, r) == [NoOp EXCEPT !.op = op, !.ride = r, !.from = rides[r].status]

\* an HTTPException raised before any mutation
Rejected(op, u, r) ==
    /\ last' = [Op(op, u, r) EXCEPT !.result = "rejected"]
    /\ UNCHANGED <<rideVars, rooms, connVars, pureVars, sendVars, scen, fails, located, sweep>>

\* HTTP 400 "Cannot <verb> ride with status: <status>", raised when the
\* caller passed the other tests and validate_ride_transition refused
InvalidTransition(op, u, r) ==
    /\ last' = [Op(op, u, r) EXCEPT !.result = "rejected",
                                     !.detail = "invalid_transition"]
    /\ UNCHANGED <<rideVars, rooms, connVars, pureVars, sendVars, scen, fails, located, sweep>>

Exists(r) == r \in RideIds /\ rides[r].status # "absent"
is_rider(u, r) == rides[r].rider = u
is_driver_anyone(u, r) == TRUE

is_driver(u, r) == rides[r].driver # None /\ rides[r].driver = u

\* User.objects(role="driver", is_available=True, is_active=True,
\*   location__near=pickup, location__max_distance=5000).first():
\* an available driver within 5 km, or nothing; positions are not modelled,
\* so any available driver, or none, may be the answer
nearest_driver_candidates == {d \in Drivers : is_available[d]} \cup {None}

Off(sc, r) == [sc EXCEPT ![r] = -1]

age_minutes(r) == now - rides[r].created_at

ride_expired_never(age) == FALSE

retry_applies_until_started(ride_status) == ride_status \in {"pending", "accepted"}

\* ride_routes.py:990: retry-assign goes on only for a pending ride
retry_applies(ride_status) == ride_status = "pending"

ride_expired_always(age) == TRUE

\* ride_routes.py:1000
ride_expired(age) == age > PENDING_RIDE_TTL_MINUTES

attempts_exhausted_early(attempts) == attempts >= MAX_ASSIGNMENT_ATTEMPTS - 1

attempts_exhausted_late(attempts) == attempts > MAX_ASSIGNMENT_ATTEMPTS

\* ride_routes.py:1096
attempts_exhausted(attempts) == attempts >= MAX_ASSIGNMENT_ATTEMPTS

NextRideId == CHOOSE r \in RideIds :
    /\ ~Exists(r)
    /\ \A q \in RideIds : q < r => Exists(q)

create_ride_request(u, auto_assign) ==
    /\ \E r \in RideIds : ~Exists(r)
    /\ LET r == NextRideId IN
       IF role(u) # "rider" THEN Rejected("create_ride_request", u, r)
       ELSE \E nearest \in (IF auto_assign THEN nearest_driver_candidates ELSE {None}) :
            LET calls == IF nearest # None
                         THEN {Msg(nearest, "ride_assigned", None),
                               Msg(u, "ride_accepted", None)}
                         ELSE {}
            IN
            /\ rides' = [rides EXCEPT ![r] =
                  [status |-> IF nearest # None THEN "accepted" ELSE "pending",
                   rider |-> u, driver |-> nearest, created_at |-> now]]
            /\ is_available' = IF nearest # None
                               THEN [is_available EXCEPT ![nearest] = FALSE]
                               ELSE is_available
            /\ rooms' = IF nearest # None THEN ProxyAdd(rooms, r, {nearest, u})
                        ELSE rooms
            /\ PENDING_RIDES_QUEUE' =
                  IF auto_assign /\ nearest = None
                  THEN Put(PENDING_RIDES_QUEUE, r,
                           [created_at |-> now, attempts |-> 0, rider_id |-> u])
                  ELSE PENDING_RIDES_QUEUE
            /\ \E ok \in SUBSET CanSucceed(connections, conn, Tos(calls)) :
                  /\ conn' = AfterSends(connections, conn, Tos(calls), ok)
                  /\ last' = [Op("create_ride_request", u, r) EXCEPT
                                !.result = IF nearest # None THEN "assigned" ELSE "pending",
                                !.calls = calls, !.written = Sendable(connections, conn, Tos(calls)),
                                !.searched = auto_assign,
                                !.arg = IF auto_assign THEN "auto" ELSE "manual"]
            /\ fails' = fails
            /\ located' = located
            /\ sweep' = sweep
            /\ scen' = [scen EXCEPT ![r] =
                  IF \A d \in Drivers : ~is_available[d] THEN 0 ELSE -1]
            /\ UNCHANGED <<now, allow_trip_cancellation, connections, closing, pureVars, sendVars>>

accept_ride(u, r) ==
    IF ~(/\ role(u) = "driver"
         /\ is_available[u]
         /\ Exists(r))
    THEN Rejected("accept_ride", u, r)
    ELSE IF ~validate_ride_transition(rides[r].status, "accepted")
    THEN InvalidTransition("accept_ride", u, r)
    ELSE LET calls == {Msg(rides[r].rider, "ride_accepted", None)} IN
         /\ rides' = [rides EXCEPT ![r].driver = u, ![r].status = "accepted"]
         /\ is_available' = [is_available EXCEPT ![u] = FALSE]
         /\ rooms' = ProxyAdd(rooms, r, {u, rides[r].rider})
         /\ \E ok \in SUBSET CanSucceed(connections, conn, Tos(calls)) :
               /\ conn' = AfterSends(connections, conn, Tos(calls), ok)
               /\ last' = [Op("accept_ride", u, r) EXCEPT
                             !.result = "ok", !.calls = calls,
                             !.written = Sendable(connections, conn, Tos(calls))]
         /\ fails' = fails
         /\ located' = located
         /\ sweep' = sweep
         /\ scen' = Off(scen, r)
         /\ UNCHANGED <<PENDING_RIDES_QUEUE, now, allow_trip_cancellation,
                        connections, closing, pureVars, sendVars>>

start_ride(u, r) ==
    IF ~(Exists(r) /\ is_driver(u, r))
    THEN Rejected("start_ride", u, r)
    ELSE IF ~validate_ride_transition(rides[r].status, "in_progress")
    THEN InvalidTransition("start_ride", u, r)
    ELSE LET calls == {Msg(rides[r].rider, "ride_started", None)} IN
         /\ rides' = [rides EXCEPT ![r].status = "in_progress"]
         /\ \E ok \in SUBSET CanSucceed(connections, conn, Tos(calls)) :
               /\ conn' = AfterSends(connections, conn, Tos(calls), ok)
               /\ last' = [Op("start_ride", u, r) EXCEPT
                             !.result = "ok", !.calls = calls,
                             !.written = Sendable(connections, conn, Tos(calls))]
         /\ fails' = fails
         /\ located' = located
         /\ sweep' = sweep
         /\ scen' = Off(scen, r)
         /\ UNCHANGED <<is_available, PENDING_RIDES_QUEUE, now,
                        allow_trip_cancellation, rooms, connections, closing, pureVars, sendVars>>

complete_ride(u, r) ==
    IF ~(Exists(r) /\ is_driver(u, r))
    THEN Rejected("complete_ride", u, r)
    ELSE IF ~validate_ride_transition(rides[r].status, "completed")
    THEN InvalidTransition("complete_ride", u, r)
    ELSE LET calls == {Msg(rides[r].rider, "ride_completed", None)} IN
         /\ rides' = [rides EXCEPT ![r].status = "completed"]
         /\ is_available' = [is_available EXCEPT ![u] = TRUE]
         /\ \E ok \in SUBSET CanSucceed(connections, conn, Tos(calls)) :
               /\ conn' = AfterSends(connections, conn, Tos(calls), ok)
               /\ last' = [Op("complete_ride", u, r) EXCEPT
                             !.result = "ok", !.calls = calls,
                             !.written = Sendable(connections, conn, Tos(calls))]
         /\ fails' = fails
         /\ located' = located
         /\ sweep' = sweep
         /\ scen' = [q \in RideIds |-> -1]
         /\ UNCHANGED <<PENDING_RIDES_QUEUE, now, allow_trip_cancellation,
                        rooms, connections, closing, pureVars, sendVars>>

\* the handler writes data.status without consulting the transition table
update_ride_status(u, r, s) ==
    IF ~(/\ Exists(r)
         /\ (is_rider(u, r) \/ is_driver(u, r))
         /\ ~(is_rider(u, r) /\ role(u) = "rider" /\ s # "cancelled"))
    THEN Rejected("update_ride_status", u, r)
    ELSE /\ rides' = [rides EXCEPT ![r].status = s]
         /\ is_available' =
               IF s \in {"completed", "cancelled"} /\ rides[r].driver # None
               THEN [is_available EXCEPT ![rides[r].driver] = TRUE]
               ELSE is_available
         /\ last' = [Op("update_ride_status", u, r) EXCEPT
                       !.result = "ok", !.arg = s]
         /\ fails' = fails
         /\ located' = located
         /\ sweep' = sweep
         /\ scen' = IF s \in {"completed", "cancelled"} /\ rides[r].driver # None
                    THEN [q \in RideIds |-> -1] ELSE Off(scen, r)
         /\ UNCHANGED <<PENDING_RIDES_QUEUE, now, allow_trip_cancellation,
                        rooms, connVars, pureVars, sendVars>>

\* ------------------------------------------------------------------------
\* ConnectionManager: leave_room, disconnect, broadcasts
\* ------------------------------------------------------------------------
LeaveRoomsKeepEmpty(rms, rs, u) ==
    [r \in DOMAIN rms |->
        IF r \in rs THEN [rms[r] EXCEPT !.participants = @ \ {u}] ELSE rms[r]]

\* the room table after user u has left every room of rs (leave_room deletes
\* a room at once when it becomes empty and ignores a room that is absent)
LeaveRooms(rms, rs, u) ==
    [r \in {x \in DOMAIN rms : x \notin rs \/ rms[x].participants \ {u} # {}} |->
        IF r \in rs THEN [rms[r] EXCEPT !.participants = @ \ {u}] ELSE rms[r]]

RECURSIVE DisconnectRooms(_, _, _, _)
\* the room table after disconnect() of every user of S: each popped
\* connection leaves the rooms of its own joined_rooms
DisconnectRooms(regs, c, rms, S) ==
    IF S = {} THEN rms
    ELSE LET u == CHOOSE x \in S : TRUE
             left == IF regs[u] = 0 THEN rms
                     ELSE LeaveRooms(rms, c[regs[u]].joined_rooms, u)
         IN DisconnectRooms(regs, c, left, S \ {u})

\* disconnect(): pop the registered connection and mark it dead
DisconnectRegs(regs, S) == [u \in Users |-> IF u \in S THEN 0 ELSE regs[u]]
DisconnectConn(regs, c, S) ==
    [h \in Handles |->
        IF \E u \in S : regs[u] = h THEN [c[h] EXCEPT !.is_alive = FALSE] ELSE c[h]]
\* ... and then await websocket.close() on it
DisconnectClosing(regs, S) == {regs[u] : u \in {x \in S : regs[x] # 0}}

BroadcastTargetsAll(rms, r, exclude_user) == get_room_participants(rms, r)

\* broadcast_to_room: participants at call time, minus exclude_user
BroadcastTargets(rms, r, exclude_user) ==
    LET participants == get_room_participants(rms, r) IN
    IF exclude_user # None THEN participants \ {exclude_user} ELSE participants

Registered == {u \in Users : connections[u] # 0}

trip_cancellation_refused_never(ride_status, allow) == FALSE

\* if ride.status == "in_progress": if not allow_trip_cancellation: raise 403
trip_cancellation_refused(ride_status, allow) ==
    ride_status = "in_progress" /\ ~allow

\* HTTP 403 "Cannot cancel ride while in progress. This feature is disabled.",
\* raised when the caller passed the authorization test
TripCancellationDisabled(u, r) ==
    /\ last' = [Op("cancel_ride", u, r) EXCEPT !.result = "rejected",
                                               !.detail = "trip_cancellation_disabled"]
    /\ UNCHANGED <<rideVars, rooms, connVars, pureVars, sendVars, scen, fails, located, sweep>>

cancel_ride(u, r) ==
    IF ~(/\ Exists(r)
         /\ (is_rider(u, r) \/ is_driver(u, r)))
    THEN Rejected("cancel_ride", u, r)
    ELSE IF trip_cancellation_refused(rides[r].status, allow_trip_cancellation)
    THEN TripCancellationDisabled(u, r)
    ELSE IF rides[r].status \in {"completed", "cancelled"}
    THEN /\ last' = [Op("cancel_ride", u, r) EXCEPT !.result = "already"]
         /\ UNCHANGED <<rideVars, rooms, connVars, pureVars, sendVars, scen, fails, located, sweep>>
    ELSE LET tos == BroadcastTargets(rooms, r, None)
             calls == {Msg(t, "ride_cancelled", None) : t \in tos}
         IN
         /\ rides' = [rides EXCEPT ![r].status = "cancelled"]
         /\ is_available' = IF rides[r].driver # None
                            THEN [is_available EXCEPT ![rides[r].driver] = TRUE]
                            ELSE is_available
         /\ PENDING_RIDES_QUEUE' = Del(PENDING_RIDES_QUEUE, r)
         /\ \E ok \in SUBSET CanSucceed(connections, conn, tos) :
               /\ conn' = AfterSends(connections, conn, tos, ok)
               /\ last' = [Op("cancel_ride", u, r) EXCEPT
                             !.result = "ok", !.calls = calls,
                             !.written = Sendable(connections, conn, tos)]
         /\ fails' = fails
         /\ located' = located
         /\ sweep' = sweep
         /\ scen' = IF rides[r].driver # None
                    THEN [q \in RideIds |-> -1] ELSE Off(scen, r)
         /\ UNCHANGED <<now, allow_trip_cancellation, rooms, connections, closing, pureVars, sendVars>>

\* the scenario "one retry per minute from T+1, no driver ever available"
ScenStep(r) ==
    IF /\ scen[r] >= 0
       /\ age_minutes(r) = scen[r] + 1
       /\ age_minutes(r) <= 9
       /\ \A d \in Drivers : ~is_available[d]
    THEN [scen EXCEPT ![r] = age_minutes(r)]
    ELSE Off(scen, r)

retry_assign_driver(u, r) ==
    IF ~(Exists(r) /\ is_rider(u, r))
    THEN Rejected("retry_assign_driver", u, r)
    ELSE
    LET att == IF r \in DOMAIN PENDING_RIDES_QUEUE
               THEN PENDING_RIDES_QUEUE[r].attempts ELSE -1
        op == [Op("retry_assign_driver", u, r) EXCEPT
                 !.att = att, !.age = age_minutes(r)]
        rider == rides[r].rider
    IN
    IF ~retry_applies(rides[r].status)
    THEN /\ last' = [op EXCEPT !.result = "not_pending"]
         /\ fails' = fails
         /\ located' = located
         /\ sweep' = sweep
         /\ scen' = ScenStep(r)
         /\ UNCHANGED <<rideVars, rooms, connVars, pureVars, sendVars>>
    ELSE IF ride_expired(age_minutes(r))
    THEN LET calls == {Msg(rider, "no_driver_found", "timeout")} IN
         /\ rides' = [rides EXCEPT ![r].status = "cancelled"]
         /\ \E ok \in SUBSET CanSucceed(connections, conn, Tos(calls)) :
               /\ conn' = AfterSends(connections, conn, Tos(calls), ok)
               /\ last' = [op EXCEPT !.result = "timeout", !.calls = calls,
                                     !.written = Sendable(connections, conn, Tos(calls))]
         /\ fails' = fails
         /\ located' = located
         /\ sweep' = sweep
         /\ scen' = ScenStep(r)
         /\ UNCHANGED <<is_available, PENDING_RIDES_QUEUE, now,
                        allow_trip_cancellation, rooms, connections, closing, pureVars, sendVars>>
    ELSE \E nearest \in nearest_driver_candidates :
         IF nearest # None
         THEN LET calls == {Msg(u, "ride_accepted", None)} IN
              /\ rides' = [rides EXCEPT ![r].driver = nearest,
                                        ![r].status = "accepted"]
              /\ is_available' = [is_available EXCEPT ![nearest] = FALSE]
              /\ PENDING_RIDES_QUEUE' = Del(PENDING_RIDES_QUEUE, r)
              /\ \E ok \in SUBSET CanSucceed(connections, conn, Tos(calls)) :
                    /\ conn' = AfterSends(connections, conn, Tos(calls), ok)
                    /\ last' = [op EXCEPT !.result = "assigned", !.calls = calls,
                                          !.written = Sendable(connections, conn, Tos(calls)),
                                          !.searched = TRUE]
              /\ fails' = fails
              /\ located' = located
              /\ sweep' = sweep
              /\ scen' = ScenStep(r)
              /\ UNCHANGED <<now, allow_trip_cancellation, rooms,
                             connections, closing, pureVars, sendVars>>
         ELSE LET entry == IF r \in DOMAIN PENDING_RIDES_QUEUE
                           THEN PENDING_RIDES_QUEUE[r]
                           ELSE [created_at |-> rides[r].created_at,
                                 attempts |-> 0, rider_id |-> rider]
                  attempts == entry.attempts + 1
                  calls == IF attempts_exhausted(attempts)
                           THEN {Msg(rider, "no_driver_found", "max_attempts")}
                           ELSE {}
              IN
              /\ rides' = IF attempts_exhausted(attempts)
                          THEN [rides EXCEPT ![r].status = "cancelled"]
                          ELSE rides
              /\ PENDING_RIDES_QUEUE' =
                    IF attempts_exhausted(attempts)
                    THEN Del(PENDING_RIDES_QUEUE, r)
                    ELSE Put(PENDING_RIDES_QUEUE, r,
                             [entry EXCEPT !.attempts = attempts])
              /\ \E ok \in SUBSET CanSucceed(connections, conn, Tos(calls)) :
                    /\ conn' = AfterSends(connections, conn, Tos(calls), ok)
                    /\ last' = [op EXCEPT
                                  !.result = IF attempts_exhausted(attempts)
                                             THEN "max_attempts" ELSE "keep_trying",
                                  !.calls = calls,
                                  !.written = Sendable(connections, conn, Tos(calls)),
                                  !.searched = TRUE]
              /\ fails' = [fails EXCEPT ![r] = @ + 1]
              /\ located' = located
              /\ sweep' = sweep
              /\ scen' = ScenStep(r)
              /\ UNCHANGED <<is_available, now, allow_trip_cancellation, rooms,
                             connections, closing, pureVars, sendVars>>

\* routes/auth_routes.py: PUT /me/availability; becoming available is
\* announced with broadcast_to_all, which disconnects every user whose send
\* failed
toggle_availability(u, available) ==
    IF role(u) # "driver"
    THEN /\ last' = [NoOp EXCEPT !.op = "toggle_availability",
                                 !.result = "rejected"]
         /\ UNCHANGED <<rideVars, rooms, connVars, pureVars, sendVars, scen, fails, located, sweep>>
    ELSE \E failed \in SUBSET (IF available THEN Registered ELSE {}) :
         /\ \A x \in Registered : available /\ conn[connections[x]].closed => x \in failed
         /\ is_available' = [is_available EXCEPT ![u] = available]
         /\ connections' = DisconnectRegs(connections, failed)
         /\ conn' = DisconnectConn(connections, conn, failed)
         /\ closing' = closing \cup DisconnectClosing(connections, failed)
         /\ rooms' = DisconnectRooms(connections, conn, rooms, failed)
         /\ last' = [NoOp EXCEPT !.op = "toggle_availability",
                        !.result = "ok",
                        !.calls = IF available
                                  THEN {Msg(t, "driver_availability_changed", None) :
                                          t \in Registered}
                                  ELSE {},
                        !.written = IF available THEN Registered ELSE {},
                        !.popped = DisconnectClosing(connections, failed),
                        !.arg = IF available THEN "on" ELSE "off"]
         /\ fails' = fails
         /\ located' = located
         /\ sweep' = sweep
         /\ scen' = IF available THEN [q \in RideIds |-> -1] ELSE scen
         /\ UNCHANGED <<rides, PENDING_RIDES_QUEUE, now, allow_trip_cancellation,
                        pureVars, sendVars>>

\* ------------------------------------------------------------------------
\* ConnectionManager: join_room, leave_room, is_room_active
\* ------------------------------------------------------------------------
\* join_room returns False when the user is already a participant
join_room_ret(rms, r, u) == u \notin get_room_participants(rms, r)

join_room_rooms_existing_only(rms, r, u) ==
    IF r \in DOMAIN rms
    THEN Put(rms, r, [rms[r] EXCEPT !.participants = @ \cup {u}])
    ELSE rms

join_room_rooms(rms, r, u) ==
    LET room == IF r \in DOMAIN rms THEN rms[r] ELSE NewRoom
    IN Put(rms, r, [room EXCEPT !.participants = @ \cup {u}])

\* ... and records the room on the connection registered for the user
join_room_conn(regs, c, rms, r, u) ==
    IF join_room_ret(rms, r, u) /\ regs[u] # 0
    THEN [c EXCEPT ![regs[u]].joined_rooms = @ \cup {r}]
    ELSE c

\* leave_room returns False, changing nothing, when the room does not exist
leave_room_ret(rms, r, u) == r \in DOMAIN rms

leave_room_rooms(rms, r, u) == LeaveRooms(rms, {r}, u)

leave_room_conn(regs, c, rms, r, u) ==
    IF leave_room_ret(rms, r, u) /\ regs[u] # 0
    THEN [c EXCEPT ![regs[u]].joined_rooms = @ \ {r}]
    ELSE c

is_room_active(rms, r) == r \in DOMAIN rms /\ rms[r].participants # {}

\* ------------------------------------------------------------------------
\* websocket_endpoint: one coroutine per websocket handle
\* ------------------------------------------------------------------------
FreeHandle == CHOOSE h \in Handles :
    /\ conn[h].pc = "unused"
    /\ \A g \in Handles : g < h => conn[g].pc # "unused"

\* a message can be handled while the endpoint is in its loop and the
\* server has not closed the socket
InLoop(h) == conn[h].pc = "loop" /\ ~conn[h].closed

\* websocket_endpoint -> manager.connect up to its first await: with a
\* connection registered for the user, disconnect() pops it, marks it dead,
\* leaves its rooms and awaits its close; otherwise connect goes straight to
\* await websocket.accept()
ws_connect(u) ==
    /\ \E h \in Handles : conn[h].pc = "unused"
    /\ LET h == FreeHandle
           old == connections[u]
           fresh == [NoConn EXCEPT !.user = u, !.old = old,
                        !.pc = IF old # 0 THEN "closing_old" ELSE "accepting"]
       IN
       /\ connections' = DisconnectRegs(connections, {u})
       /\ conn' = [DisconnectConn(connections, conn, {u}) EXCEPT ![h] = fresh]
       /\ rooms' = DisconnectRooms(connections, conn, rooms, {u})
       /\ closing' = closing \cup DisconnectClosing(connections, {u})
       /\ last' = [NoOp EXCEPT !.op = "connect_begin", !.handle = h, !.arg = u,
                               !.popped = DisconnectClosing(connections, {u})]
       /\ UNCHANGED <<rideVars, pureVars, sendVars, scen, fails, located, sweep>>

\* websocket.close() of a popped connection returns (or raises, which is
\* swallowed); a connect() that awaited it goes on to websocket.accept()
close_done(h) ==
    /\ h \in closing
    /\ closing' = closing \ {h}
    /\ conn' = [g \in Handles |->
                  IF g = h THEN [conn[g] EXCEPT !.closed = TRUE]
                  ELSE IF conn[g].pc = "closing_old" /\ conn[g].old = h
                  THEN [conn[g] EXCEPT !.pc = "accepting", !.old = 0]
                  ELSE conn[g]]
    /\ last' = [NoOp EXCEPT !.op = "close_done", !.handle = h]
    /\ UNCHANGED <<rideVars, rooms, connections, pureVars, sendVars, scen, fails, located, sweep>>

\* websocket.accept() returns: connect() registers the new ClientConnection
\* under the user id, whatever is registered there, and the endpoint sends
\* the "connected" greeting
ws_accept(h) ==
    /\ conn[h].pc = "accepting"
    /\ LET u == conn[h].user
           regs == [connections EXCEPT ![u] = h]
           c == [conn EXCEPT ![h].pc = "loop", ![h].is_alive = TRUE,
                             ![h].accepted = TRUE, ![h].last_heartbeat = now_s]
       IN
       /\ connections' = regs
       /\ \E ok \in SUBSET CanSucceed(regs, c, {u}) :
             conn' = AfterSends(regs, c, {u}, ok)
       /\ last' = [NoOp EXCEPT !.op = "connect", !.handle = h, !.arg = u,
                               !.calls = {Msg(u, "connected", None)},
                               !.written = {u}]
    /\ UNCHANGED <<rideVars, rooms, closing, pureVars, sendVars, scen, fails, located, sweep>>

\* websocket.accept() raises: the endpoint closes its socket best-effort and
\* its finally block runs disconnect(user_id)
ws_accept_fail(h) ==
    /\ conn[h].pc = "accepting"
    /\ LET u == conn[h].user IN
       /\ connections' = DisconnectRegs(connections, {u})
       /\ conn' = [DisconnectConn(connections, conn, {u}) EXCEPT
                      ![h].pc = "done", ![h].closed = TRUE]
       /\ rooms' = DisconnectRooms(connections, conn, rooms, {u})
       /\ closing' = closing \cup DisconnectClosing(connections, {u})
       /\ last' = [NoOp EXCEPT !.op = "connect_failed", !.handle = h, !.arg = u,
                               !.popped = DisconnectClosing(connections, {u})]
    /\ UNCHANGED <<rideVars, pureVars, sendVars, scen, fails, located, sweep>>

\* the message loop ends (the client went away, or the connection was found
\* dead on a receive timeout): finally: manager.disconnect(user_id), which
\* pops whatever connection is registered for the user
ws_end(h) ==
    /\ conn[h].pc = "loop"
    /\ LET u == conn[h].user IN
       /\ connections' = DisconnectRegs(connections, {u})
       /\ conn' = [DisconnectConn(connections, conn, {u}) EXCEPT ![h].pc = "done"]
       /\ rooms' = DisconnectRooms(connections, conn, rooms, {u})
       /\ closing' = closing \cup DisconnectClosing(connections, {u})
       /\ last' = [NoOp EXCEPT !.op = "disconnect", !.handle = h, !.arg = u,
                               !.popped = DisconnectClosing(connections, {u})]
    /\ UNCHANGED <<rideVars, pureVars, sendVars, scen, fails, located, sweep>>

\* _cleanup_stale_connections: disconnect(user_id, "Heartbeat timeout") for a
\* registered connection whose heartbeat is older than the timeout; heartbeat
\* times are not modelled, so any registered connection may be found stale
cleanup_stale_connections(u) ==
    /\ connections[u] # 0
    /\ connections' = DisconnectRegs(connections, {u})
    /\ conn' = DisconnectConn(connections, conn, {u})
    /\ rooms' = DisconnectRooms(connections, conn, rooms, {u})
    /\ closing' = closing \cup DisconnectClosing(connections, {u})
    /\ last' = [NoOp EXCEPT !.op = "cleanup_stale", !.arg = u,
                            !.popped = DisconnectClosing(connections, {u})]
    /\ UNCHANGED <<rideVars, pureVars, sendVars, scen, fails, located, sweep>>

cleanup_empty_rooms ==
    /\ rooms' = [r \in {x \in DOMAIN rooms : rooms[x].participants # {}} |-> rooms[r]]
    /\ last' = [NoOp EXCEPT !.op = "cleanup_empty_rooms"]
    /\ UNCHANGED <<rideVars, connVars, pureVars, sendVars, scen, fails, located, sweep>>

\* ClientConnection.update_heartbeat
update_heartbeat(c, t) == [c EXCEPT !.last_heartbeat = t]

\* ClientConnection.is_stale
is_stale(c, t) == t - c.last_heartbeat > HEARTBEAT_TIMEOUT_SECONDS

\* connection.update_heartbeat() on the endpoint's own connection
Beat(c, h) == [c EXCEPT ![h] = update_heartbeat(@, now_s)]

\* the endpoint's reply to its own user: send_to_user(user_id, response)
Reply(h, regs, c, op) ==
    LET u == conn[h].user IN
    \E ok \in SUBSET CanSucceed(regs, c, {u}) :
       /\ conn' = AfterSends(regs, c, {u}, ok)
       /\ last' = [op EXCEPT !.written = Sendable(regs, c, {u})]

\* the state a joined_ride response carries: the room's cached driver
\* location when it has one, and ride.status
join_response(rms, r) ==
    [ride_status |-> rides[r].status,
     last_driver_location |-> IF r \in DOMAIN rms /\ rms[r].last_driver_location.set
                              THEN rms[r].last_driver_location ELSE NoCoords]

handle_join_ride(h, r) ==
    /\ InLoop(h)
    /\ LET u == conn[h].user
           op == [NoOp EXCEPT !.op = "join_ride", !.handle = h, !.arg = u,
                     !.ride = r, !.had = r \in DOMAIN rooms,
                     !.pre = get_room_participants(rooms, r)]
       IN
       IF r \in conn[h].joined_rooms
       THEN /\ Reply(h, connections, conn,
                     [op EXCEPT !.result = "already",
                                !.calls = {Msg(u, "joined_ride", None)}])
            /\ UNCHANGED rooms
       ELSE IF ~(/\ Exists(r)
                 /\ (is_rider(u, r) \/ is_driver(u, r))
                 /\ rides[r].status \notin {"completed", "cancelled"})
       THEN /\ Reply(h, connections, conn,
                     [op EXCEPT !.result = "error",
                                !.calls = {Msg(u, "error", None)}])
            /\ UNCHANGED rooms
       ELSE /\ rooms' = join_room_rooms(rooms, r, u)
            /\ Reply(h, connections,
                     Beat(join_room_conn(connections, conn, rooms, r, u), h),
                     [op EXCEPT !.result = IF join_room_ret(rooms, r, u)
                                           THEN "joined_new" ELSE "joined_dup",
                                !.calls = {Msg(u, "joined_ride", None)},
                                !.response = join_response(
                                                 join_room_rooms(rooms, r, u), r)])
    /\ UNCHANGED <<rideVars, connections, closing, pureVars, sendVars, scen, fails, located, sweep>>

handle_leave_ride(h, r) ==
    /\ InLoop(h)
    /\ LET u == conn[h].user
           op == [NoOp EXCEPT !.op = "leave_ride", !.handle = h, !.arg = u,
                     !.ride = r, !.had = r \in DOMAIN rooms,
                     !.pre = get_room_participants(rooms, r),
                     !.result = IF leave_room_ret(rooms, r, u)
                                THEN "left" ELSE "no_room",
                     !.calls = {Msg(u, "left_ride", None)}]
       IN
       /\ rooms' = leave_room_rooms(rooms, r, u)
       /\ Reply(h, connections,
                Beat(leave_room_conn(connections, conn, rooms, r, u), h), op)
    /\ UNCHANGED <<rideVars, connections, closing, pureVars, sendVars, scen, fails, located, sweep>>

\* inbound texts the message loop has no handler for
BadMessages == {"invalid_json", "not_object", "missing_event_type", "unknown_event"}

\* websocket_endpoint, message loop: json.loads raising JSONDecodeError, no
\* event_type and no handler each send an error event; on JSON that is not an
\* object data.get raises AttributeError, which `except Exception: continue`
\* swallows
sends_error_event(kind) == kind \in {"invalid_json", "missing_event_type", "unknown_event"}

\* the message loop receives a text it cannot dispatch and goes on
ws_bad_message(h, kind) ==
    /\ InLoop(h)
    /\ LET u == conn[h].user
           op == [NoOp EXCEPT !.op = "bad_message", !.handle = h, !.arg = u,
                     !.result = kind, !.had = connections[u] = h]
       IN
       IF sends_error_event(kind)
       THEN Reply(h, connections, conn, [op EXCEPT !.calls = {Msg(u, "error", None)}])
       ELSE /\ conn' = conn
            /\ last' = op
    /\ UNCHANGED <<rideVars, rooms, connections, closing, pureVars, sendVars, scen, fails, located, sweep>>

\* handle_ping refreshes the heartbeat and answers pong
handle_ping(h) ==
    /\ InLoop(h)
    /\ Reply(h, connections, Beat(conn, h),
             [NoOp EXCEPT !.op = "ping", !.handle = h, !.arg = conn[h].user,
                          !.calls = {Msg(conn[h].user, "pong", None)}])
    /\ UNCHANGED <<rideVars, rooms, connections, closing, pureVars, sendVars, scen, fails, located, sweep>>

\* handle_pong marks the endpoint's own connection alive
handle_pong(h) ==
    /\ InLoop(h)
    /\ conn' = [conn EXCEPT ![h].is_alive = TRUE]
    /\ last' = [NoOp EXCEPT !.op = "pong", !.handle = h, !.arg = conn[h].user]
    /\ UNCHANGED <<rideVars, rooms, connections, closing, pureVars, sendVars, scen, fails, located, sweep>>

\* ------------------------------------------------------------------------
\* ClientConnection.should_throttle_location and handle_location_update
\* ------------------------------------------------------------------------
Abs(x) == IF x < 0 THEN -x ELSE x

\* abs(lat - prev_lat) * 111000 and abs(lon - prev_lon) * 111000 * 0.9,
\* in centimetres
dist_lat(lat, prev_lat) == Abs(lat - prev_lat) * 10
dist_lon(lon, prev_lon) == Abs(lon - prev_lon) * 9

\* dist >= LOCATION_MIN_DISTANCE_METERS, both sides squared
moved_significantly_always(point, prev) == TRUE

moved_significantly(point, prev) ==
    dist_lat(point.lat, prev.lat) * dist_lat(point.lat, prev.lat)
      + dist_lon(point.lon, prev.lon) * dist_lon(point.lon, prev.lon)
        >= (LOCATION_MIN_DISTANCE_METERS * 100) * (LOCATION_MIN_DISTANCE_METERS * 100)

throttle_window_open_strict(time_since_last) == time_since_last > LOCATION_THROTTLE_MS

throttle_window_open(time_since_last) == time_since_last >= LOCATION_THROTTLE_MS

should_throttle_location(c, point, t) ==
    IF throttle_window_open(t - c.last_location_broadcast) THEN FALSE
    ELSE IF c.last_location_coords.set /\ moved_significantly(point, c.last_location_coords)
    THEN FALSE
    ELSE TRUE

update_location_state(c, point, t) ==
    [c EXCEPT !.last_location_broadcast = t, !.last_location_coords = point]

update_room_driver_location(rms, r, point) ==
    IF r \in DOMAIN rms THEN [rms EXCEPT ![r].last_driver_location = point] ELSE rms

\* history: the location the room of ride r has cached when the ride's own
\* driver sends an update that is not throttled while the room exists
Located(c, r, point) ==
    IF /\ r \in RideIds
       /\ r \in DOMAIN rooms
       /\ is_driver(c.user, r)
       /\ ~should_throttle_location(c, point, now_ms)
    THEN [located EXCEPT ![r] = point]
    ELSE located

handle_location_update(h, r, point) ==
    /\ InLoop(h)
    /\ LET u == conn[h].user
           op == [NoOp EXCEPT !.op = "location_update", !.handle = h, !.arg = u,
                     !.ride = r,
                     !.loc = [t |-> conn[h].last_location_broadcast,
                              coords |-> conn[h].last_location_coords,
                              point |-> point, at |-> now_ms]]
       IN
       IF role(u) # "driver"
       THEN /\ Reply(h, connections, conn,
                     [op EXCEPT !.result = "error", !.calls = {Msg(u, "error", None)}])
            /\ UNCHANGED rooms
       ELSE IF should_throttle_location(conn[h], point, now_ms)
       THEN /\ last' = [op EXCEPT !.result = "throttled"]
            /\ UNCHANGED <<rooms, conn>>
       ELSE LET tos == BroadcastTargets(rooms, r, u)
                c == [conn EXCEPT ![h] = update_location_state(
                                             update_heartbeat(@, now_s), point, now_ms)]
            IN
            /\ rooms' = update_room_driver_location(rooms, r, point)
            /\ \E ok \in SUBSET CanSucceed(connections, c, tos) :
                  /\ conn' = AfterSends(connections, c, tos, ok)
                  /\ last' = [op EXCEPT
                                !.result = "broadcast",
                                !.calls = {Msg(t, "driver_location_update", None) : t \in tos},
                                !.written = Sendable(connections, c, tos)]
    /\ located' = Located(conn[h], r, point)
    /\ sweep' = sweep
    /\ UNCHANGED <<rideVars, connections, closing, pureVars, sendVars, scen, fails>>

\* time.time() moves on
TickS ==
    /\ now_s < MaxS
    /\ now_s' = now_s + StepS
    /\ last' = [NoOp EXCEPT !.op = "tick_s"]
    /\ UNCHANGED <<rideVars, rooms, connVars, now_ms, probe, sendVars, scen, fails, located, sweep>>

\* one pass of _cleanup_loop: disconnect(user_id, "Heartbeat timeout") for
\* every registered connection that is_stale(), then _cleanup_empty_rooms
\* the clock at the end of its window: 15 s more pass, and the stored
\* heartbeat times are restated relative to the window (a time more than the
\* window old stays at its start, which is_stale cannot tell apart)
TickRoll ==
    /\ now_s = MaxS
    /\ conn' = [h \in Handles |->
                  [conn[h] EXCEPT !.last_heartbeat = IF @ > StepS THEN @ - StepS ELSE 0]]
    /\ last' = [NoOp EXCEPT !.op = "tick_roll"]
    /\ UNCHANGED <<rideVars, rooms, connections, closing, pureVars, sendVars, scen, fails, located, sweep>>

timeout_breaks_always(c) == TRUE

\* if not connection.is_alive: break
timeout_breaks(c) == ~c.is_alive

\* websocket_endpoint, except asyncio.TimeoutError: nothing came from the
\* client for HEARTBEAT_INTERVAL_SECONDS; a connection marked dead breaks out
\* of the loop into the finally clause's disconnect, a live one goes on
\* waiting. The time of the last receive is not modelled, so the timeout may
\* come whenever the session waits for a message
receive_timeout(h) ==
    /\ InLoop(h)
    /\ LET u == conn[h].user IN
       IF timeout_breaks(conn[h])
       THEN /\ connections' = DisconnectRegs(connections, {u})
            /\ conn' = [DisconnectConn(connections, conn, {u}) EXCEPT ![h].pc = "done"]
            /\ rooms' = DisconnectRooms(connections, conn, rooms, {u})
            /\ closing' = closing \cup DisconnectClosing(connections, {u})
            /\ last' = [NoOp EXCEPT !.op = "receive_timeout", !.handle = h, !.arg = u,
                                    !.result = "break",
                                    !.popped = DisconnectClosing(connections, {u})]
       ELSE /\ last' = [NoOp EXCEPT !.op = "receive_timeout", !.handle = h, !.arg = u,
                                    !.result = "continue"]
            /\ UNCHANGED <<connections, conn, rooms, closing>>
    /\ UNCHANGED <<rideVars, pureVars, sendVars, scen, fails, located, sweep>>

cleanup_loop ==
    LET stale_users == {u \in Registered : is_stale(conn[connections[u]], now_s)}
        left == DisconnectRooms(connections, conn, rooms, stale_users)
    IN
    /\ connections' = DisconnectRegs(connections, stale_users)
    /\ conn' = DisconnectConn(connections, conn, stale_users)
    /\ closing' = closing \cup DisconnectClosing(connections, stale_users)
    /\ rooms' = [r \in {x \in DOMAIN left : left[x].participants # {}} |-> left[r]]
    /\ last' = [NoOp EXCEPT !.op = "cleanup_loop", !.pre = stale_users,
                            !.popped = DisconnectClosing(connections, stale_users)]
    /\ UNCHANGED <<rideVars, pureVars, sendVars, scen, fails, located, sweep>>

\* time.time() * 1000 moves on
TickMs ==
    /\ now_ms < EpochMs + MaxMs
    /\ now_ms' = now_ms + StepMs
    /\ last' = [NoOp EXCEPT !.op = "tick_ms"]
    /\ UNCHANGED <<rideVars, rooms, connVars, probe, now_s, sendVars, scen, fails, located, sweep>>

\* ------------------------------------------------------------------------
\* Sends, step by step: send_to_user, broadcast_to_room, broadcast_to_all
\* and the keepalive ping, each suspended at the awaits of the write lock
\* and of websocket.send_json
\* ------------------------------------------------------------------------
\* how a send_json that was started can end
SendEnds == {"completed", "timeout", "runtime_error", "exception"}

\* who calls send_to_user
SendCallers == {"send_to_user", "ping"}

send_failure_caught_timeout_only(kind) == kind = "timeout"

\* ride_socket.py:436-451: except asyncio.TimeoutError / RuntimeError / Exception
send_failure_caught(kind) == kind \in {"timeout", "runtime_error", "exception"}

write_lock_ignored(lock, h) == TRUE

\* asyncio.Lock: `async with connection.write_lock` goes on only when unlocked
write_lock_free(lock, h) == ~lock[h]

\* send_to_user up to its first suspension, for the connection registered
\* under user u: "return" (no connection, or not alive), "not_connected"
\* (client_state is not CONNECTED), "writing" (lock taken, send_json
\* started) or "waiting" (suspended on the lock)
send_begin(regs, c, lock, u, down) ==
    LET h == regs[u] IN
    IF h = 0 \/ ~c[h].is_alive THEN "return"
    ELSE IF h \in down THEN "not_connected"
    ELSE IF write_lock_free(lock, h) THEN "writing"
    ELSE "waiting"

\* send_to_user(user_id, message), called directly (send_personal_message,
\* the endpoint's replies) or by _send_keepalive_pings
send_to_user(t, u, via, connected) ==
    /\ tasks[t].pc = "idle"
    /\ LET h == connections[u]
           down == IF connected THEN {} ELSE {h}
           b == send_begin(connections, conn, write_lock, u, down)
       IN
       /\ conn' = IF b = "not_connected"
                  THEN [conn EXCEPT ![h].is_alive = FALSE] ELSE conn
       /\ write_lock' = IF b = "writing"
                        THEN [write_lock EXCEPT ![h] = TRUE] ELSE write_lock
       /\ tasks' = IF b \in {"writing", "waiting"}
                   THEN [tasks EXCEPT ![t] = [pc |-> b, to |-> u, handle |-> h,
                                              via |-> via]]
                   ELSE tasks
       /\ last' = [NoOp EXCEPT !.op = IF b \in {"writing", "waiting"}
                                      THEN "send_suspended" ELSE "send_to_user",
                      !.arg = u, !.handle = h,
                      !.result = IF b = "return"
                                 THEN (IF h = 0 THEN "no_session" ELSE "dead")
                                 ELSE b,
                      !.ret = FALSE, !.raised = FALSE]
    /\ UNCHANGED <<rideVars, rooms, connections, closing, pureVars, ball, scen, fails, located, sweep>>

\* the lock is released to a send_to_user suspended on it
send_acquire(t) ==
    /\ tasks[t].pc = "waiting"
    /\ write_lock_free(write_lock, tasks[t].handle)
    /\ write_lock' = [write_lock EXCEPT ![tasks[t].handle] = TRUE]
    /\ tasks' = [tasks EXCEPT ![t].pc = "writing"]
    /\ last' = [NoOp EXCEPT !.op = "send_acquire", !.handle = tasks[t].handle]
    /\ UNCHANGED <<rideVars, rooms, connVars, pureVars, ball, scen, fails, located, sweep>>

\* wait_for(send_json, timeout) ends: the lock is released and send_to_user
\* returns True, or its except clauses mark the connection dead and return
\* False; a write on a socket the server closed cannot complete
send_json_done(t, kind) ==
    /\ tasks[t].pc = "writing"
    /\ kind = "completed" => ~conn[tasks[t].handle].closed
    /\ LET h == tasks[t].handle IN
       /\ write_lock' = [write_lock EXCEPT ![h] = FALSE]
       /\ conn' = IF kind # "completed" /\ send_failure_caught(kind)
                  THEN [conn EXCEPT ![h].is_alive = FALSE] ELSE conn
       /\ tasks' = [tasks EXCEPT ![t] = NoTask]
       /\ last' = [NoOp EXCEPT !.op = "send_to_user", !.arg = tasks[t].to,
                      !.handle = h, !.result = kind,
                      !.ret = (kind = "completed"),
                      !.raised = (kind # "completed" /\ ~send_failure_caught(kind))]
    /\ UNCHANGED <<rideVars, rooms, connections, closing, pureVars, ball, scen, fails, located, sweep>>

\* broadcast_to_room(ride_id, message): asyncio.gather starts one
\* send_to_user per participant, all before any of them is awaited
broadcast_to_room(r, down) ==
    LET participants == BroadcastTargets(rooms, r, None)
        idle == {t \in Tasks : tasks[t].pc = "idle"}
        begin(u) == send_begin(connections, conn, write_lock, u, down)
    IN
    /\ participants # {}
    /\ \E f \in [participants -> idle] :
          /\ \A u, v \in participants : f[u] = f[v] => u = v
          /\ tasks' = [t \in Tasks |->
                         IF \E u \in participants :
                               f[u] = t /\ begin(u) \in {"writing", "waiting"}
                         THEN LET u == CHOOSE u \in participants : f[u] = t IN
                              [pc |-> begin(u), to |-> u,
                               handle |-> connections[u], via |-> "room"]
                         ELSE tasks[t]]
    /\ conn' = [h \in Handles |->
                  IF \E u \in participants :
                        connections[u] = h /\ begin(u) = "not_connected"
                  THEN [conn[h] EXCEPT !.is_alive = FALSE] ELSE conn[h]]
    /\ write_lock' = [h \in Handles |->
                        IF \E u \in participants :
                              connections[u] = h /\ begin(u) = "writing"
                        THEN TRUE ELSE write_lock[h]]
    /\ last' = [NoOp EXCEPT !.op = "broadcast_to_room", !.ride = r,
                            !.pre = participants]
    /\ UNCHANGED <<rideVars, rooms, connections, closing, pureVars, ball, scen, fails, located, sweep>>

\* ------------------------------------------------------------------------
\* The table locks.  No handler awaits while it holds one, so a lock never
\* makes a handler wait here; what is recorded is which lock each operation
\* holds around its changes to the tables
\* ------------------------------------------------------------------------
\* the table locks under which the operation named op changes the tables:
\* connect registers under _connections_lock; disconnect (called by the
\* endpoint, by connect for an old connection, by the cleanup loop and by
\* broadcast_to_all, which toggle_availability calls) pops under _connections_lock and leaves the rooms through
\* leave_room, under _rooms_lock; join_room, leave_room,
\* update_room_driver_location and _cleanup_empty_rooms take _rooms_lock;
\* ride_routes.py writes ride_rooms (RideRoomsProxy) with no lock
locks_held(op) ==
    CASE op = "connect" -> {"connections"}
      [] op \in {"disconnect", "connect_begin", "connect_failed", "cleanup_stale",
                 "cleanup_loop", "cleanup_pass", "receive_timeout", "broadcast_cleanup",
                 "toggle_availability"} -> {"connections", "rooms"}
      [] op \in {"join_ride", "leave_ride", "location_update", "ws_location_update",
                 "cleanup_empty_rooms"} -> {"rooms"}
      [] OTHER -> {}

\* the operation changes room membership through join_room or leave_room
via_join_leave(op) ==
    op \in {"join_ride", "leave_ride", "disconnect", "connect_begin", "connect_failed",
            "cleanup_stale", "cleanup_loop", "cleanup_pass", "receive_timeout",
            "broadcast_cleanup", "toggle_availability"}

\* ------------------------------------------------------------------------
\* websocket_endpoint, the message loop step by step: a message is received,
\* its handler runs up to the sends it awaits, and the loop is back at
\* receive_text when these have returned
\* ------------------------------------------------------------------------
\* the sends a session's own loop is awaiting
LoopVia(h) == "loop" \o ToString(h)

AwaitedSends(tk, h) == {t \in Tasks : tk[t].via = LoopVia(h) /\ tk[t].pc # "idle"}

dispatch_pc_detached(suspended) == "loop"

\* response = await handler(connection, data); await manager.send_to_user(
\* user_id, response): the loop is suspended while a send is
dispatch_pc(suspended) == IF suspended # {} THEN "handling" ELSE "loop"

\* the sends of one handler (a reply to the sender, or broadcast_to_room's
\* gather) are started, each up to its first suspension
Dispatch(h, c, tos, op) ==
    LET idle == {t \in Tasks : tasks[t].pc = "idle"}
        begin(u) == send_begin(connections, c, write_lock, u, {})
        suspended == {u \in tos : begin(u) \in {"writing", "waiting"}}
    IN
    /\ \E f \in [tos -> idle] :
          /\ \A u, v \in tos : f[u] = f[v] => u = v
          /\ tasks' = [t \in Tasks |->
                         IF \E u \in suspended : f[u] = t
                         THEN LET u == CHOOSE u \in suspended : f[u] = t IN
                              [pc |-> begin(u), to |-> u,
                               handle |-> connections[u], via |-> LoopVia(h)]
                         ELSE tasks[t]]
    /\ write_lock' = [g \in Handles |->
                        IF \E u \in tos : connections[u] = g /\ begin(u) = "writing"
                        THEN TRUE ELSE write_lock[g]]
    /\ conn' = [c EXCEPT ![h].received = @ + 1,
                         ![h].handled = IF suspended = {} THEN @ + 1 ELSE @,
                         ![h].pc = dispatch_pc(suspended)]
    /\ last' = [op EXCEPT !.pre = suspended]

\* a ping is received: handle_ping, then the pong is sent to the sender
ws_ping(h) ==
    /\ InLoop(h)
    /\ conn[h].received < MaxMsgs
    /\ Dispatch(h, Beat(conn, h), {conn[h].user},
                [NoOp EXCEPT !.op = "ws_ping", !.handle = h, !.arg = conn[h].user,
                             !.calls = {Msg(conn[h].user, "pong", None)}])
    /\ UNCHANGED <<rideVars, rooms, connections, closing, pureVars, ball, scen, fails, located, sweep>>

\* a location_update is received: handle_location_update, which answers a
\* rider with an error, drops a throttled update, and otherwise awaits
\* broadcast_to_room before it returns
ws_location_update(h, r, point) ==
    /\ InLoop(h)
    /\ conn[h].received < MaxMsgs
    /\ LET u == conn[h].user
           op == [NoOp EXCEPT !.op = "ws_location_update", !.handle = h, !.arg = u,
                              !.ride = r]
       IN
       IF role(u) # "driver"
       THEN /\ Dispatch(h, conn, {u},
                        [op EXCEPT !.result = "error", !.calls = {Msg(u, "error", None)}])
            /\ UNCHANGED rooms
       ELSE IF should_throttle_location(conn[h], point, now_ms)
       THEN /\ Dispatch(h, conn, {}, [op EXCEPT !.result = "throttled"])
            /\ UNCHANGED rooms
       ELSE LET tos == BroadcastTargets(rooms, r, u)
                c == [conn EXCEPT ![h] = update_location_state(
                                             update_heartbeat(@, now_s), point, now_ms)]
            IN
            /\ rooms' = update_room_driver_location(rooms, r, point)
            /\ Dispatch(h, c, tos,
                        [op EXCEPT !.result = "broadcast",
                            !.calls = {Msg(t, "driver_location_update", None) : t \in tos}])
    /\ located' = Located(conn[h], r, point)
    /\ sweep' = sweep
    /\ UNCHANGED <<rideVars, connections, closing, pureVars, ball, scen, fails>>

\* the awaited sends have all returned: the loop is back at receive_text
ws_resume(h) ==
    /\ conn[h].pc = "handling"
    /\ AwaitedSends(tasks, h) = {}
    /\ conn' = [conn EXCEPT ![h].pc = "loop", ![h].handled = @ + 1]
    /\ last' = [NoOp EXCEPT !.op = "ws_resume", !.handle = h, !.arg = conn[h].user]
    /\ UNCHANGED <<rideVars, rooms, connections, closing, pureVars, sendVars, scen, fails, located, sweep>>

\* broadcast_to_all(message): the snapshot of the registry
broadcast_to_all ==
    /\ ball.pc = "idle"
    /\ ball' = [NoBall EXCEPT !.pc = "loop",
                              !.todo = {connections[u] : u \in Registered}]
    /\ last' = [NoOp EXCEPT !.op = "broadcast_to_all"]
    /\ UNCHANGED <<rideVars, rooms, connVars, pureVars, tasks, write_lock, scen, fails, located, sweep>>

\* the loop takes the next snapshot entry: a socket that is not CONNECTED
\* goes to the disconnected list, otherwise the write starts under
\* asyncio.timeout(5.0), behind the entry's write lock
broadcast_next(h, connected) ==
    /\ ball.pc = "loop"
    /\ h \in ball.todo
    /\ IF ~connected
       THEN /\ ball' = [ball EXCEPT !.todo = @ \ {h},
                                    !.disconnected = @ \cup {conn[h].user}]
            /\ write_lock' = write_lock
       ELSE IF write_lock_free(write_lock, h)
       THEN /\ ball' = [ball EXCEPT !.todo = @ \ {h}, !.cur = h, !.pc = "writing"]
            /\ write_lock' = [write_lock EXCEPT ![h] = TRUE]
       ELSE /\ ball' = [ball EXCEPT !.todo = @ \ {h}, !.cur = h, !.pc = "waiting"]
            /\ write_lock' = write_lock
    /\ last' = [NoOp EXCEPT !.op = "broadcast_next", !.handle = h]
    /\ UNCHANGED <<rideVars, rooms, connVars, pureVars, tasks, scen, fails, located, sweep>>

\* the lock is released to the broadcast suspended on it
broadcast_acquire ==
    /\ ball.pc = "waiting"
    /\ write_lock_free(write_lock, ball.cur)
    /\ write_lock' = [write_lock EXCEPT ![ball.cur] = TRUE]
    /\ ball' = [ball EXCEPT !.pc = "writing"]
    /\ last' = [NoOp EXCEPT !.op = "broadcast_acquire", !.handle = ball.cur]
    /\ UNCHANGED <<rideVars, rooms, connVars, pureVars, tasks, scen, fails, located, sweep>>

\* asyncio.timeout(5.0) expires while the broadcast still waits for the lock
broadcast_lock_timeout ==
    /\ ball.pc = "waiting"
    /\ ball' = [ball EXCEPT !.pc = "loop", !.cur = 0,
                            !.disconnected = @ \cup {conn[ball.cur].user}]
    /\ last' = [NoOp EXCEPT !.op = "broadcast_lock_timeout", !.handle = ball.cur]
    /\ UNCHANGED <<rideVars, rooms, connVars, pureVars, tasks, write_lock, scen, fails, located, sweep>>

\* the entry's send_json ends: any failure puts the user on the
\* disconnected list, and the loop goes on
broadcast_send_done(kind) ==
    /\ ball.pc = "writing"
    /\ kind = "completed" => ~conn[ball.cur].closed
    /\ write_lock' = [write_lock EXCEPT ![ball.cur] = FALSE]
    /\ ball' = [ball EXCEPT !.pc = "loop", !.cur = 0,
                            !.disconnected = IF kind = "completed" THEN @
                                             ELSE @ \cup {conn[ball.cur].user}]
    /\ last' = [NoOp EXCEPT !.op = "broadcast_send_done", !.handle = ball.cur,
                            !.result = kind]
    /\ UNCHANGED <<rideVars, rooms, connVars, pureVars, tasks, scen, fails, located, sweep>>

\* after the loop: disconnect(user_id) for every user on the list
broadcast_cleanup ==
    /\ ball.pc = "loop"
    /\ ball.todo = {}
    /\ connections' = DisconnectRegs(connections, ball.disconnected)
    /\ conn' = DisconnectConn(connections, conn, ball.disconnected)
    /\ rooms' = DisconnectRooms(connections, conn, rooms, ball.disconnected)
    /\ closing' = closing \cup DisconnectClosing(connections, ball.disconnected)
    /\ ball' = NoBall
    /\ last' = [NoOp EXCEPT !.op = "broadcast_cleanup",
                            !.popped = DisconnectClosing(connections, ball.disconnected)]
    /\ UNCHANGED <<rideVars, pureVars, tasks, write_lock, scen, fails, located, sweep>>

\* ------------------------------------------------------------------------
\* The transition validators, applied to a pair of status strings
\* ------------------------------------------------------------------------
\* the five statuses and two strings that are no status
StatusInputs == Statuses \cup {"unknown", "PENDING"}

ProbeRoutes ==
    /\ probe.pc = "start"
    /\ probe' = [probe EXCEPT !.pc = "routes",
                    !.routes = validate_ride_transition(probe.current, probe.new)]
    /\ UNCHANGED <<rideVars, rooms, connVars, now_ms, now_s, sendVars, last, scen, fails, located, sweep>>

ProbeSocket ==
    /\ probe.pc = "routes"
    /\ probe' = [probe EXCEPT !.pc = "done",
                    !.socket = is_valid_state_transition(probe.current, probe.new)]
    /\ UNCHANGED <<rideVars, rooms, connVars, now_ms, now_s, sendVars, last, scen, fails, located, sweep>>

\* the clock is read only to age a pending ride (ride_routes.py:999), so it
\* is advanced only while some ride is pending
Tick ==
    /\ now < MaxTime
    /\ \E r \in RideIds : rides[r].status = "pending"
    /\ now' = now + 1
    /\ last' = [NoOp EXCEPT !.op = "tick"]
    /\ UNCHANGED <<rides, is_available, PENDING_RIDES_QUEUE, allow_trip_cancellation,
                   rooms, connVars, pureVars, sendVars, scen, fails, located, sweep>>

\* ------------------------------------------------------------------------
\* The ride lifecycle (REST handlers and the clock)
\* ------------------------------------------------------------------------
Next ==
    \/ \E u \in Users, auto_assign \in BOOLEAN : create_ride_request(u, auto_assign)
    \/ \E u \in Users, r \in RideIds : accept_ride(u, r)
    \/ \E u \in Users, r \in RideIds : start_ride(u, r)
    \/ \E u \in Users, r \in RideIds : complete_ride(u, r)
    \/ \E u \in Users, r \in RideIds, s \in StatusUpdateValues :
          update_ride_status(u, r, s)
    \/ \E u \in Users, r \in RideIds : cancel_ride(u, r)
    \/ \E u \in Users, r \in RideIds : retry_assign_driver(u, r)
    \/ \E u \in Users, available \in BOOLEAN : toggle_availability(u, available)
    \/ Tick

Spec == Init /\ [][Next]_vars

\* ------------------------------------------------------------------------
\* Sessions: websocket endpoints, the manager's cleanup, broadcast_to_all and
\* the REST handlers that put users into rooms
\* ------------------------------------------------------------------------
\* no ride is ever in progress here, so ALLOW_CANCELLATION_DURING_TRIP is left
\* at its default
InitConn == Init /\ ~allow_trip_cancellation

NextConn ==
    \/ \E u \in Users : ws_connect(u)
    \/ \E h \in Handles : close_done(h)
    \/ \E h \in Handles : ws_accept(h)
    \/ \E h \in Handles : ws_accept_fail(h)
    \/ \E h \in Handles : ws_end(h)
    \/ \E h \in Handles : receive_timeout(h)
    \/ \E u \in Users : cleanup_stale_connections(u)
    \/ \E h \in Handles : handle_pong(h)
    \/ \E u \in Users, auto_assign \in BOOLEAN : create_ride_request(u, auto_assign)
    \/ \E u \in Users, r \in RideIds : accept_ride(u, r)
    \/ \E u \in Users, available \in BOOLEAN : toggle_availability(u, available)

SpecConn == InitConn /\ [][NextConn]_vars

\* ------------------------------------------------------------------------
\* Rooms: a rider and a driver who has made itself available, their
\* websocket sessions, the room events and the REST handlers of their ride
\* ------------------------------------------------------------------------
Clients == {"R1", "D1"}

InitRooms ==
    /\ rides = [r \in RideIds |-> NoRide]
    /\ is_available = [d \in Drivers |-> d = "D1"]
    /\ PENDING_RIDES_QUEUE = <<>>
    /\ now = 0
    /\ allow_trip_cancellation = FALSE
    /\ last = NoOp
    /\ scen = [r \in RideIds |-> -1]
    /\ fails = [r \in RideIds |-> 0]
    /\ located = [r \in RideIds |-> NoCoords]
    /\ sweep = NoSweep
    /\ InitManager
    /\ probe = NoProbe

NextRooms ==
    \/ \E u \in Clients : ws_connect(u)
    \/ \E h \in Handles : close_done(h)
    \/ \E h \in Handles : ws_accept(h)
    \/ \E h \in Handles : ws_end(h)
    \/ \E u \in Clients : cleanup_stale_connections(u)
    \/ cleanup_empty_rooms
    \/ \E h \in Handles, r \in RoomIds : handle_join_ride(h, r)
    \/ \E h \in Handles, r \in RoomIds : handle_leave_ride(h, r)
    \/ \E h \in Handles, r \in RoomIds, point \in Origin :
          handle_location_update(h, r, point)
    \/ \E u \in Clients, auto_assign \in BOOLEAN : create_ride_request(u, auto_assign)
    \/ \E u \in Clients, r \in RideIds : accept_ride(u, r)
    \/ \E u \in Clients, r \in RideIds : cancel_ride(u, r)

SpecRooms == InitRooms /\ [][NextRooms]_vars

\* ------------------------------------------------------------------------
\* The location throttle: one driver session, already admitted, sending
\* location updates for its ride while the millisecond clock runs
\* ------------------------------------------------------------------------
InitThrottle ==
    /\ rides = [r \in RideIds |->
                  IF r = 1 THEN [NoRide EXCEPT !.status = "accepted", !.rider = "R1",
                                               !.driver = "D1"]
                  ELSE NoRide]
    /\ is_available = [d \in Drivers |-> FALSE]
    /\ PENDING_RIDES_QUEUE = <<>>
    /\ now = 0
    /\ allow_trip_cancellation \in BOOLEAN
    /\ last = NoOp
    /\ scen = [r \in RideIds |-> -1]
    /\ fails = [r \in RideIds |-> 0]
    /\ located = [r \in RideIds |-> NoCoords]
    /\ sweep = NoSweep
    /\ rooms = ProxyAdd(<<>>, 1, {"D1", "R1"})
    /\ connections = [u \in Users |-> IF u = "D1" THEN 1 ELSE 0]
    /\ conn = [h \in Handles |->
                 IF h = 1 THEN [NoConn EXCEPT !.user = "D1", !.pc = "loop",
                                              !.is_alive = TRUE, !.accepted = TRUE]
                 ELSE NoConn]
    /\ closing = {}
    /\ now_ms = EpochMs
    /\ now_s = 0
    /\ InitSends
    /\ probe = NoProbe

NextThrottle ==
    \/ TickMs
    \/ \E h \in Handles, r \in RideIds, point \in Points :
          handle_location_update(h, r, point)
    \/ \E h \in Handles, kind \in BadMessages : ws_bad_message(h, kind)

SpecThrottle == InitThrottle /\ [][NextThrottle]_vars

\* ------------------------------------------------------------------------
\* Sends in progress: rider and driver of an accepted ride, both admitted
\* and in the ride's room, while messages are sent to them
\* ------------------------------------------------------------------------
InitSend ==
    /\ rides = [r \in RideIds |->
                  IF r = 1 THEN [NoRide EXCEPT !.status = "accepted", !.rider = "R1",
                                               !.driver = "D1"]
                  ELSE NoRide]
    /\ is_available = [d \in Drivers |-> FALSE]
    /\ PENDING_RIDES_QUEUE = <<>>
    /\ now = 0
    /\ allow_trip_cancellation = FALSE
    /\ last = NoOp
    /\ scen = [r \in RideIds |-> -1]
    /\ fails = [r \in RideIds |-> 0]
    /\ located = [r \in RideIds |-> NoCoords]
    /\ sweep = NoSweep
    /\ rooms = Put(<<>>, 1, [NewRoom EXCEPT !.participants = {"R1", "D1"}])
    /\ connections = [u \in Users |-> IF u = "R1" THEN 1 ELSE IF u = "D1" THEN 2 ELSE 0]
    /\ conn = [h \in Handles |->
                 IF h \in {1, 2}
                 THEN [NoConn EXCEPT !.user = IF h = 1 THEN "R1" ELSE "D1",
                                     !.pc = "loop", !.is_alive = TRUE,
                                     !.accepted = TRUE, !.joined_rooms = {1}]
                 ELSE NoConn]
    /\ closing = {}
    /\ now_ms = EpochMs
    /\ now_s = 0
    /\ InitSends
    /\ probe = NoProbe

NextSend ==
    \/ \E t \in Tasks, u \in Users, via \in SendCallers, connected \in BOOLEAN :
          send_to_user(t, u, via, connected)
    \/ \E t \in Tasks : send_acquire(t)
    \/ \E t \in Tasks, kind \in SendEnds : send_json_done(t, kind)
    \/ \E r \in RoomIds, down \in SUBSET Handles : broadcast_to_room(r, down)
    \/ broadcast_to_all
    \/ \E h \in Handles, connected \in BOOLEAN : broadcast_next(h, connected)
    \/ broadcast_acquire
    \/ broadcast_lock_timeout
    \/ \E kind \in SendEnds : broadcast_send_done(kind)
    \/ broadcast_cleanup
    \/ \E h \in Handles : close_done(h)

SpecSend == InitSend /\ [][NextSend]_vars

\* ------------------------------------------------------------------------
\* The message loops of the rider's and the driver's sessions, step by step,
\* while other handlers send to the same two users
\* ------------------------------------------------------------------------
InitLoop == InitSend

NextLoop ==
    \/ \E h \in Handles : ws_ping(h)
    \/ \E h \in Handles, r \in RideIds, point \in Origin : ws_location_update(h, r, point)
    \/ \E h \in Handles : ws_resume(h)
    \/ \E t \in Tasks, u \in Clients, via \in SendCallers, connected \in BOOLEAN :
          send_to_user(t, u, via, connected)
    \/ \E t \in Tasks : send_acquire(t)
    \/ \E t \in Tasks, kind \in SendEnds : send_json_done(t, kind)

SpecLoop == InitLoop /\ [][NextLoop]_vars

\* ------------------------------------------------------------------------
\* Automatic cancellation: a rider with an admitted session asks for rides
\* and retries while the clock runs, drivers come and go, and the rider's
\* session is disconnected or found stale
\* ------------------------------------------------------------------------
InitAuto ==
    /\ InitStore
    /\ rooms = <<>>
    /\ connections = [u \in Users |-> IF u = "R1" THEN 1 ELSE 0]
    /\ conn = [h \in Handles |->
                 IF h = 1 THEN [NoConn EXCEPT !.user = "R1", !.pc = "loop",
                                              !.is_alive = TRUE, !.accepted = TRUE]
                 ELSE NoConn]
    /\ closing = {}
    /\ now_ms = EpochMs
    /\ now_s = 0
    /\ InitSends
    /\ probe = NoProbe
    /\ ~allow_trip_cancellation

NextAuto ==
    \/ \E u \in Clients, auto_assign \in BOOLEAN : create_ride_request(u, auto_assign)
    \/ \E u \in Clients, r \in RideIds : retry_assign_driver(u, r)
    \/ \E u \in Clients, r \in RideIds : accept_ride(u, r)
    \/ \E u \in Clients, r \in RideIds : cancel_ride(u, r)
    \/ \E u \in Clients, r \in RideIds, s \in StatusUpdateValues :
          update_ride_status(u, r, s)
    \/ \E u \in Clients, available \in BOOLEAN : toggle_availability(u, available)
    \/ \E h \in Handles : ws_end(h)
    \/ \E u \in Clients : cleanup_stale_connections(u)
    \/ \E h \in Handles : close_done(h)
    \/ Tick

SpecAuto == InitAuto /\ [][NextAuto]_vars

\* ------------------------------------------------------------------------
\* Heartbeats: rider and driver of an accepted ride, both admitted and in
\* the ride's room, send messages while the clock runs and the cleanup loop
\* makes its passes
\* ------------------------------------------------------------------------
InitHeartbeat == InitSend

\* Eviction: the same two sessions, the rider put in the room by join_ride
\* and the driver by accept_ride, under a cleanup loop that keeps running
\* ------------------------------------------------------------------------
InitEvict ==
    /\ rides = [r \in RideIds |->
                  IF r = 1 THEN [NoRide EXCEPT !.status = "accepted", !.rider = "R1",
                                               !.driver = "D1"]
                  ELSE NoRide]
    /\ is_available = [d \in Drivers |-> FALSE]
    /\ PENDING_RIDES_QUEUE = <<>>
    /\ now = 0
    /\ allow_trip_cancellation = FALSE
    /\ last = NoOp
    /\ scen = [r \in RideIds |-> -1]
    /\ fails = [r \in RideIds |-> 0]
    /\ located = [r \in RideIds |-> NoCoords]
    /\ sweep = NoSweep
    /\ rooms = ProxyAdd(join_room_rooms(<<>>, 1, "R1"), 1, {"D1", "R1"})
    /\ connections = [u \in Users |-> IF u = "R1" THEN 1 ELSE IF u = "D1" THEN 2 ELSE 0]
    /\ conn = [h \in Handles |->
                 IF h \in {1, 2}
                 THEN [NoConn EXCEPT !.user = IF h = 1 THEN "R1" ELSE "D1",
                                     !.pc = "loop", !.is_alive = TRUE,
                                     !.accepted = TRUE,
                                     !.joined_rooms = IF h = 1 THEN {1} ELSE {}]
                 ELSE NoConn]
    /\ closing = {}
    /\ now_ms = EpochMs
    /\ now_s = 0
    /\ InitSends
    /\ probe = NoProbe

NextHeartbeat ==
    \/ TickS
    \/ \E h \in Handles : handle_ping(h)
    \/ \E h \in Handles : handle_pong(h)
    \/ \E h \in Handles, kind \in BadMessages : ws_bad_message(h, kind)
    \/ \E h \in Handles, r \in RoomIds : handle_join_ride(h, r)
    \/ \E h \in Handles, r \in RoomIds : handle_leave_ride(h, r)
    \/ \E h \in Handles, r \in RoomIds, point \in Origin :
          handle_location_update(h, r, point)
    \/ cleanup_loop
    \/ \E h \in Handles : close_done(h)

SpecHeartbeat == InitHeartbeat /\ [][NextHeartbeat]_vars

NextEvict ==
    \/ TickS
    \/ TickRoll
    \/ \E h \in Handles : receive_timeout(h)
    \/ \E h \in Handles : handle_ping(h)
    \/ \E h \in Handles : handle_pong(h)
    \/ \E h \in Handles, r \in RoomIds : handle_join_ride(h, r)
    \/ \E h \in Handles, r \in RoomIds : handle_leave_ride(h, r)
    \/ cleanup_loop
    \/ \E h \in Handles : close_done(h)

\* _cleanup_loop runs for the life of the manager and survives the errors of
\* a pass (ride_socket.py:224-233), and time goes on
SpecEvict ==
    /\ InitEvict
    /\ [][NextEvict]_vars
    /\ WF_vars(cleanup_loop)
    /\ WF_vars(TickS)
    /\ WF_vars(TickRoll)

\* ------------------------------------------------------------------------
\* The two transition validators on every pair of inputs
\* ------------------------------------------------------------------------
InitTransitions ==
    /\ InitStore
    /\ InitManager
    /\ probe \in {[NoProbe EXCEPT !.pc = "start", !.current = c, !.new = n] :
                    c \in StatusInputs, n \in StatusInputs}

NextTransitions == ProbeRoutes \/ ProbeSocket

SpecTransitions == InitTransitions /\ [][NextTransitions]_vars

\* ========================================================================
\* Properties
\* ========================================================================

\* C1: every change of a ride's status made by a lifecycle handler goes from
\* the current status to a status the transition table allows for it
C1_StatusChangesFollowTable ==
    [][\A r \in RideIds :
          (Exists(r) /\ rides'[r].status # rides[r].status)
             => validate_ride_transition(rides[r].status, rides'[r].status)]_vars

\* C3: terminal states are absorbing: once a ride is completed or cancelled
\* no handler call changes its status again
C3_TerminalAbsorbing ==
    [][\A r \in RideIds :
          rides[r].status \in {"completed", "cancelled"}
             => rides'[r].status = rides[r].status]_vars

\* the pairs the transition table lists
TransitionTable ==
    {<<"pending", "accepted">>, <<"pending", "cancelled">>,
     <<"accepted", "in_progress">>, <<"accepted", "cancelled">>,
     <<"in_progress", "completed">>, <<"in_progress", "cancelled">>}

\* C2: for every pair over the five statuses and unknown strings,
\* validate_ride_transition returns true exactly when the table lists the
\* pair, and is_valid_state_transition returns the same
C2_ValidatorsMatchTable ==
    /\ probe.pc \in {"routes", "done"}
         => (probe.routes <=> <<probe.current, probe.new>> \in TransitionTable)
    /\ probe.pc = "done" => (probe.socket <=> probe.routes)

C2_Witness ==
    /\ probe.pc = "done"
    /\ probe.current = "in_progress" /\ probe.new = "completed"
    /\ probe.routes /\ probe.socket

\* C4: when connect() for a user completes, the registry maps the user to
\* the newly admitted session and every other accepted handle of that user is
\* marked dead and closed
C4_SecondSessionReplacesFirst ==
    last.op = "connect"
       => /\ connections[last.arg] = last.handle
          /\ \A g \in Handles \ {last.handle} :
                (conn[g].user = last.arg /\ conn[g].accepted)
                   => ~conn[g].is_alive /\ conn[g].closed

\* C5: after disconnect() has popped a user's registered connection, that
\* connection is marked dead, the user is not in the registry and the user is
\* a participant of no room
C5_DisconnectLeavesNothing ==
    \A h \in last.popped :
       /\ ~conn[h].is_alive
       /\ connections[conn[h].user] = 0
       /\ \A r \in DOMAIN rooms : conn[h].user \notin rooms[r].participants

\* C6: broadcast_to_room issues no send to exclude_user and issues one to
\* every other participant the room has at the call; every one of them with
\* a live registered session is written to
C6_BroadcastSkipsOnlyExcluded ==
    (\/ last.op = "location_update" /\ last.result = "broadcast"
     \/ last.op = "cancel_ride" /\ last.result = "ok")
       => LET participants == get_room_participants(rooms, last.ride) IN
          /\ last.arg \notin Tos(last.calls)
          /\ Tos(last.calls) = participants \ {last.arg}
          /\ last.arg \notin last.written
          /\ last.written \subseteq Tos(last.calls)
          /\ \A t \in Tos(last.calls) :
                (connections[t] # 0 /\ conn[connections[t]].is_alive)
                   => t \in last.written

C6_Witness ==
    /\ last.op = "location_update" /\ last.result = "broadcast"
    /\ last.arg \in get_room_participants(rooms, last.ride)
    /\ last.written # {}
    /\ Cardinality(get_room_participants(rooms, last.ride)) = 2

\* C7: join_room creates a missing room, adds the user and returns false
\* exactly when the user was a participant already; leave_room removes the
\* user and deletes the room at once when it was the last participant; a room
\* exists exactly when it has a participant, which is what is_room_active says
C7_RoomLifecycle ==
    /\ (last.op = "join_ride" /\ last.result \in {"joined_new", "joined_dup"})
          => /\ last.ride \in DOMAIN rooms
             /\ rooms[last.ride].participants = last.pre \cup {last.arg}
             /\ (last.result = "joined_dup") <=> (last.arg \in last.pre)
    /\ last.op = "leave_ride"
          => /\ last.pre \ {last.arg} = {} => last.ride \notin DOMAIN rooms
             /\ last.pre \ {last.arg} # {}
                   => /\ last.ride \in DOMAIN rooms
                      /\ rooms[last.ride].participants = last.pre \ {last.arg}
             /\ (last.result = "no_room") <=> ~last.had
    /\ \A r \in RoomIds :
          /\ is_room_active(rooms, r)
                <=> (r \in DOMAIN rooms /\ Cardinality(rooms[r].participants) >= 1)
          /\ is_room_active(rooms, r) <=> r \in DOMAIN rooms

C7_Witness ==
    /\ last.op = "leave_ride" /\ last.result = "left"
    /\ last.pre = {last.arg}
    /\ last.ride \notin DOMAIN rooms
    /\ ~is_room_active(rooms, last.ride)

\* C8: a location update is suppressed exactly when less than 400 ms have
\* passed since the session's last broadcast and the point is less than 1 m
\* from the last broadcast point; the first update of a session is allowed
C8_ThrottleDecision ==
    (last.op = "location_update" /\ last.result \in {"throttled", "broadcast"})
       => LET elapsed == last.loc.at - last.loc.t
              north == 10 * Abs(last.loc.point.lat - last.loc.coords.lat)
              east == 9 * Abs(last.loc.point.lon - last.loc.coords.lon)
              near == north * north + east * east < 100 * 100
          IN /\ (last.result = "throttled")
                   <=> (last.loc.coords.set /\ elapsed < 400 /\ near)
             /\ ~last.loc.coords.set => last.result = "broadcast"

C8_Witness ==
    /\ last.op = "location_update" /\ last.result = "throttled"
    /\ last.loc.at - last.loc.t = 100
    /\ last.loc.coords = Coords(0, 0) /\ last.loc.point = Coords(5, 0)

PriorAttempts == IF last.att = -1 THEN 0 ELSE last.att

\* C9 as stated: in the scenario (ride created at T, no driver ever
\* available, one retry per minute from T+1), each retry up to T+9 increments
\* attempts and leaves the ride pending
C9_EveryRetryKeepsPending ==
    \A r \in RideIds :
        (/\ last.op = "retry_assign_driver" /\ last.result # "rejected"
         /\ last.ride = r /\ scen[r] \in 1..9)
           => /\ rides[r].status = "pending"
              /\ r \in DOMAIN PENDING_RIDES_QUEUE
              /\ PENDING_RIDES_QUEUE[r].attempts = PriorAttempts + 1

\* C9 amended: in that scenario the retries at T+1..T+4 increment attempts
\* (to 1..4) and leave the ride pending, the retry at T+5 is the fifth failed
\* attempt and cancels the ride (max_attempts), and the retries at T+6..T+9
\* find the ride no longer pending and change nothing
C9_RetriesUntilCap ==
    \A r \in RideIds :
        (/\ last.op = "retry_assign_driver" /\ last.result # "rejected"
         /\ last.ride = r /\ scen[r] \in 1..9)
           => /\ scen[r] < MAX_ASSIGNMENT_ATTEMPTS
                   => /\ rides[r].status = "pending"
                      /\ r \in DOMAIN PENDING_RIDES_QUEUE
                      /\ PENDING_RIDES_QUEUE[r].attempts = scen[r]
                      /\ PENDING_RIDES_QUEUE[r].attempts = PriorAttempts + 1
                      /\ last.result = "keep_trying"
              /\ scen[r] = MAX_ASSIGNMENT_ATTEMPTS
                   => /\ rides[r].status = "cancelled"
                      /\ last.result = "max_attempts"
              /\ scen[r] > MAX_ASSIGNMENT_ATTEMPTS
                   => /\ rides[r].status = "cancelled"
                      /\ last.result = "not_pending"

C9_Witness ==
    \E r \in RideIds :
        /\ last.op = "retry_assign_driver" /\ last.ride = r
        /\ scen[r] = 4
        /\ rides[r].status = "pending"
        /\ PENDING_RIDES_QUEUE[r].attempts = 4

\* C10: a retry on a pending ride older than the TTL cancels it with reason
\* timeout and sends no_driver_found{timeout} to the rider, whatever the
\* attempt count and the drivers' availability; nothing is searched or assigned
C10_ExpiredRetryCancels ==
    (/\ last.op = "retry_assign_driver"
     /\ last.result # "rejected"
     /\ last.from = "pending"
     /\ last.age > PENDING_RIDE_TTL_MINUTES)
       => /\ rides[last.ride].status = "cancelled"
          /\ last.result = "timeout"
          /\ last.calls = {Msg(rides[last.ride].rider, "no_driver_found", "timeout")}
          /\ ~last.searched
          /\ rides[last.ride].driver = None

C10_Witness ==
    /\ last.op = "retry_assign_driver"
    /\ last.from = "pending"
    /\ last.age > PENDING_RIDE_TTL_MINUTES
    /\ last.result = "timeout"
    /\ last.att >= 1
    /\ \E d \in Drivers : is_available[d]

\* C11: within the TTL, the 1st to 4th retry of a ride that finds no driver
\* leaves it pending, and the 5th cancels it with reason max_attempts, removes
\* its queue entry and sends no_driver_found{max_attempts} to the rider
C11_CapOnFifthFailure ==
    \A r \in RideIds :
        (/\ last.op = "retry_assign_driver" /\ last.ride = r
         /\ last.result \in {"keep_trying", "max_attempts"})
           => /\ fails[r] \in 1..5
              /\ last.age <= 10
              /\ fails[r] < 5
                   => /\ rides[r].status = "pending"
                      /\ last.result = "keep_trying"
                      /\ r \in DOMAIN PENDING_RIDES_QUEUE
                      /\ last.calls = {}
              /\ fails[r] = 5
                   => /\ rides[r].status = "cancelled"
                      /\ last.result = "max_attempts"
                      /\ r \notin DOMAIN PENDING_RIDES_QUEUE
                      /\ last.calls = {Msg(rides[r].rider, "no_driver_found",
                                           "max_attempts")}

C11_Witness ==
    \E r \in RideIds :
        /\ last.op = "retry_assign_driver" /\ last.ride = r
        /\ last.result = "max_attempts"
        /\ fails[r] = 5
        /\ last.age = 0
        /\ rides[r].status = "cancelled"

\* C12: whenever a driver is matched to a pending ride, at request time or at
\* retry time, the ride has that driver and status accepted, the driver is
\* unavailable, the ride's room holds rider and driver, and the queue has no
\* entry for the ride
C12_MatchSetsEverything ==
    (/\ last.op \in {"create_ride_request", "retry_assign_driver"}
     /\ last.result = "assigned")
       => LET r == last.ride IN
          /\ rides[r].driver # None
          /\ rides[r].status = "accepted"
          /\ ~is_available[rides[r].driver]
          /\ {rides[r].rider, rides[r].driver}
                \subseteq get_room_participants(rooms, r)
          /\ r \notin DOMAIN PENDING_RIDES_QUEUE

\* C13: the pending-rides queue has an entry only for rides whose status is
\* pending
C13_QueueOnlyPending ==
    \A r \in DOMAIN PENDING_RIDES_QUEUE : rides[r].status = "pending"

\* C14: after a retry that cancels a ride because its TTL has expired, the
\* queue has no entry for the ride
C14_TimeoutDiscardsEntry ==
    (last.op = "retry_assign_driver" /\ last.result = "timeout")
       => last.ride \notin DOMAIN PENDING_RIDES_QUEUE

\* C15: every return of send_to_user is a return, never an exception; it
\* returns True exactly when the write completed; called for a user with no
\* registered connection, or with one that is not alive, it returns False and
\* changes nothing; when the socket is not connected, or the write times out
\* or raises, the connection is marked not alive and it returns False
C15_SendToUserContract ==
    [][last'.op = "send_to_user" =>
          LET u == last'.arg
              h == last'.handle
              result == last'.result
          IN
          /\ ~last'.raised
          /\ last'.ret <=> result = "completed"
          /\ (tasks' = tasks /\ (connections[u] = 0 \/ ~conn[connections[u]].is_alive))
                <=> result \in {"no_session", "dead"}
          /\ result \in {"no_session", "dead"}
                => /\ ~last'.ret
                   /\ UNCHANGED <<rideVars, rooms, connVars, tasks, write_lock, ball>>
          /\ result \in {"not_connected", "timeout", "runtime_error", "exception"}
                => /\ ~last'.ret
                   /\ ~conn'[h].is_alive
                   /\ conn[h].user = u]_vars

\* a write to a registered, live connection raised RuntimeError; send_to_user
\* returned False and the connection is marked not alive
C15_Witness ==
    /\ last.op = "send_to_user"
    /\ last.result = "runtime_error"
    /\ ~last.ret
    /\ last.handle # 0
    /\ connections[last.arg] = last.handle
    /\ ~conn[last.handle].is_alive

\* the writes in progress on the socket of handle h
Writers(h) ==
    {t \in Tasks : tasks[t].pc = "writing" /\ tasks[t].handle = h}

\* C16: on every handle at most one send_json is in progress at a time,
\* counting those of send_to_user (called directly, by the keepalive ping or
\* by broadcast_to_room) and that of broadcast_to_all
C16_OneWriteAtATime ==
    \A h \in Handles :
        Cardinality(Writers(h))
          + (IF ball.pc = "writing" /\ ball.cur = h THEN 1 ELSE 0) <= 1

\* a room broadcast writes on a handle while a keepalive ping and
\* broadcast_to_all both wait for the same handle's lock
C16_Witness ==
    \E h \in Handles, t1, t2 \in Tasks :
        /\ tasks[t1].pc = "writing" /\ tasks[t1].handle = h /\ tasks[t1].via = "room"
        /\ tasks[t2].pc = "waiting" /\ tasks[t2].handle = h /\ tasks[t2].via = "ping"
        /\ ball.pc = "waiting" /\ ball.cur = h

\* C17: while the send to one recipient of a broadcast is in progress, the
\* send to every other live recipient of that broadcast has been started
C17_SlowPeerBlocksNobody ==
    ball.pc \in {"waiting", "writing"}
        => \A h \in ball.todo :
              ~(conn[h].is_alive /\ connections[conn[h].user] = h)

\* C18: after an inbound text that is not JSON, is JSON but not an object,
\* has no event_type or names an unknown event, an error event has been sent
\* to the sender, the endpoint is still in its loop and the session is still
\* registered
C18_BadMessageGetsError ==
    last.op = "bad_message"
        => /\ last.calls = {Msg(last.arg, "error", None)}
           /\ conn[last.handle].pc = "loop"
           /\ last.had => connections[last.arg] = last.handle

\* C19: a join_ride for a ride that does not exist, that is completed or
\* cancelled, or of which the sender is neither rider nor driver is answered
\* with an error event and changes neither the rooms nor the session's
\* joined set; a location_update from a session that is not a driver's is
\* answered with an error event and changes neither the rooms nor the
\* session's throttle state
C19_AuthErrorsChangeNothing ==
    [][LET h == last'.handle
           u == last'.arg
           r == last'.ride
       IN
       /\ (/\ last'.op = "join_ride"
           /\ ~(/\ Exists(r)
                /\ u \in {rides[r].rider, rides[r].driver}
                /\ rides[r].status \notin {"completed", "cancelled"}))
             => /\ last'.calls = {Msg(u, "error", None)}
                /\ rooms' = rooms
                /\ conn'[h].joined_rooms = conn[h].joined_rooms
       /\ (last'.op = "location_update" /\ u \notin Drivers)
             => /\ last'.calls = {Msg(u, "error", None)}
                /\ rooms' = rooms
                /\ conn'[h].last_location_broadcast = conn[h].last_location_broadcast
                /\ conn'[h].last_location_coords = conn[h].last_location_coords]_vars

\* C20: the participants of every room are among the rider and the driver of
\* the ride with the room's id
C20_RoomHoldsOnlyParties ==
    \A r \in DOMAIN rooms :
        rooms[r].participants \subseteq
            (IF Exists(r) THEN {rides[r].rider, rides[r].driver} \ {None} ELSE {})

\* a join_ride has just completed a room that holds the rider and the driver
C20_Witness ==
    /\ last.op = "join_ride"
    /\ last.result = "joined_new"
    /\ last.ride \in DOMAIN rooms
    /\ rides[last.ride].driver # None
    /\ rooms[last.ride].participants = {rides[last.ride].rider, rides[last.ride].driver}

\* the status accept_ride, start_ride and complete_ride ask for
TargetStatus(op) ==
    CASE op = "accept_ride" -> "accepted"
      [] op = "start_ride" -> "in_progress"
      [] op = "complete_ride" -> "completed"

\* C21: an accept_ride, start_ride or complete_ride on a ride whose status
\* does not allow the status asked for is rejected, and the rides, the
\* drivers' availability, the rooms and the pending queue stay as they were
C21_StateErrorLeavesRideUnchanged ==
    [][\A r \in RideIds :
          (/\ last'.op \in {"accept_ride", "start_ride", "complete_ride"}
           /\ last'.ride = r
           /\ <<rides[r].status, TargetStatus(last'.op)>> \notin TransitionTable)
             => /\ last'.result = "rejected"
                /\ last'.calls = {}
                /\ UNCHANGED <<rides, is_available, rooms, PENDING_RIDES_QUEUE>>]_vars

\* the assigned driver of a ride already in progress asked to start it and
\* was refused because of the ride's status
C21_Witness ==
    /\ last.op = "start_ride"
    /\ last.result = "rejected"
    /\ last.detail = "invalid_transition"
    /\ last.from = "in_progress"
    /\ rides[last.ride].status = "in_progress"

\* C22: a ride becomes cancelled only in a cancel_ride or in an
\* update_ride_status to cancelled, or in a retry_assign_driver that found
\* the ride pending for more than PENDING_RIDE_TTL_MINUTES or that brought
\* the ride's attempt count to MAX_ASSIGNMENT_ATTEMPTS
C22_OnlyRetryAutoCancels ==
    [][\A r \in RideIds :
          (rides[r].status # "cancelled" /\ rides'[r].status = "cancelled")
             => \/ last'.op = "cancel_ride" /\ last'.ride = r
                \/ /\ last'.op = "update_ride_status" /\ last'.ride = r
                   /\ last'.arg = "cancelled"
                \/ /\ last'.op = "retry_assign_driver" /\ last'.ride = r
                   /\ rides[r].status = "pending"
                   /\ \/ /\ last'.result = "timeout"
                         /\ now - rides[r].created_at > 10
                      \/ /\ last'.result = "max_attempts"
                         /\ r \in DOMAIN PENDING_RIDES_QUEUE
                         /\ PENDING_RIDES_QUEUE[r].attempts + 1 = 5]_vars

\* a retry found the ride pending for 11 minutes and cancelled it, after the
\* rider's session had been disconnected
C22_Witness ==
    /\ last.op = "retry_assign_driver"
    /\ last.result = "timeout"
    /\ last.age = 11
    /\ rides[last.ride].status = "cancelled"
    /\ connections[rides[last.ride].rider] = 0

\* C23: after the message loop has handled a message of a session, whatever
\* the message, the session's last_heartbeat is the time of that message
C23_AnyMessageRefreshesHeartbeat ==
    last.op \in {"ping", "pong", "bad_message", "join_ride", "leave_ride",
                 "location_update"}
        => conn[last.handle].last_heartbeat = now_s

\* C24: when a ride request or a retry has matched a driver, ride_assigned
\* has been sent to the driver and ride_accepted to the rider
C24_MatchNotifiesBoth ==
    (/\ last.op \in {"create_ride_request", "retry_assign_driver"}
     /\ last.result = "assigned")
        => last.calls = {Msg(rides[last.ride].driver, "ride_assigned", None),
                         Msg(rides[last.ride].rider, "ride_accepted", None)}

\* C25: a retry_assign_driver on a ride that is not pending changes no ride,
\* no driver's availability, no queue entry and no room, and sends nothing
C25_RetryOnNonPendingIsNoOp ==
    [][\A r \in RideIds :
          (/\ last'.op = "retry_assign_driver"
           /\ last'.ride = r
           /\ rides[r].status \notin {"absent", "pending"})
             => /\ UNCHANGED <<rides, is_available, PENDING_RIDES_QUEUE, rooms>>
                /\ last'.calls = {}]_vars

\* the rider retried on a ride that a driver had accepted
C25_Witness ==
    /\ last.op = "retry_assign_driver"
    /\ last.result = "not_pending"
    /\ last.from = "accepted"
    /\ rides[last.ride].status = "accepted"
    /\ rides[last.ride].driver # None

\* C26: a location_update that arrives less than 400 ms after the session's
\* last broadcast, from less than 1 m away from the last broadcast point, is
\* dropped: nothing is sent to anyone, the rooms and their cached driver
\* locations stay as they were, and so does the session, its last broadcast
\* time and point included
C26_ThrottledUpdateHasNoEffect ==
    [][LET h == last'.handle
           elapsed == now_ms - conn[h].last_location_broadcast
           prev == conn[h].last_location_coords
           north == 10 * Abs(last'.loc.point.lat - prev.lat)
           east == 9 * Abs(last'.loc.point.lon - prev.lon)
       IN
       (/\ last'.op = "location_update"
        /\ conn[h].user \in Drivers
        /\ elapsed < 400
        /\ prev.set => north * north + east * east < 100 * 100)
          => /\ last'.calls = {}
             /\ last'.written = {}
             /\ rooms' = rooms
             /\ conn' = conn]_vars

\* an update was dropped 300 ms after a broadcast into the ride's room: the
\* room's cached location and the session's throttle state are those of the
\* broadcast
C26_Witness ==
    /\ last.op = "location_update" /\ last.result = "throttled"
    /\ last.ride \in DOMAIN rooms
    /\ rooms[last.ride].last_driver_location.set
    /\ rooms[last.ride].last_driver_location = conn[last.handle].last_location_coords
    /\ last.loc.point # conn[last.handle].last_location_coords
    /\ now_ms - conn[last.handle].last_location_broadcast = 300

\* the connection of handle h is registered and its heartbeat is more than
\* 45 s old
StaleSession(h) ==
    /\ conn[h].user # None
    /\ connections[conn[h].user] = h
    /\ now_s - conn[h].last_heartbeat > 45

\* the connection of handle h is out of the registry and its user is in no room
Evicted(h) ==
    /\ connections[conn[h].user] # h
    /\ \A r \in DOMAIN rooms : conn[h].user \notin rooms[r].participants

\* the connection of handle h is registered with a heartbeat at most 45 s old
Refreshed(h) ==
    /\ conn[h].user # None
    /\ connections[conn[h].user] = h
    /\ now_s - conn[h].last_heartbeat <= 45

\* C27: with the cleanup loop running, a registered session whose heartbeat is
\* more than 45 s old is in the end out of the registry and out of every
\* room, unless its heartbeat is refreshed
C27_StaleSessionEvicted ==
    \A h \in Handles :
        StaleSession(h) ~> (Evicted(h) \/ Refreshed(h))

\* the connection of handle h is registered and marked dead
MarkedDead(h) ==
    /\ conn[h].user # None
    /\ connections[conn[h].user] = h
    /\ ~conn[h].is_alive

C29_HandlersInOrder ==
    [][\A h \in Handles :
          conn'[h].received > conn[h].received
          => /\ conn[h].handled = conn[h].received
             /\ \A t \in Tasks : tasks[t].via = LoopVia(h) => tasks[t].pc = "idle"]_vars

\* a session's second message is being handled, its send waiting for the
\* write lock, after the send of its first message was awaited to its end
C29_Witness ==
    \E h \in Handles :
       /\ conn[h].received = 2
       /\ conn[h].handled = 1
       /\ conn[h].pc = "handling"
       /\ \E t \in Tasks : tasks[t].via = LoopVia(h) /\ tasks[t].pc = "waiting"

\* who is in which room
Membership(rms) == {<<r, u>> \in (DOMAIN rms) \X Users : u \in rms[r].participants}

\* C30: an operation that changes the connection table holds the connections
\* lock, one that changes the room table holds the rooms lock, and room
\* membership changes only through join_room and leave_room
C30_TablesChangeUnderLocks ==
    [][/\ connections' # connections => "connections" \in locks_held(last'.op)
       /\ rooms' # rooms => "rooms" \in locks_held(last'.op)
       /\ Membership(rooms') # Membership(rooms) => via_join_leave(last'.op)]_vars

\* user u is a participant of room r
InRoom(rms, r, u) == r \in DOMAIN rms /\ u \in rms[r].participants

\* the operations that end in disconnect(user) for the user they name
DisconnectOps == {"disconnect", "connect_begin", "connect_failed", "cleanup_stale"}

\* C31: when join_room(r, u) has returned true the room exists and holds u,
\* whether or not the room existed before, and a participant stays in its
\* room until that user leaves it or is disconnected: no leave of another
\* user and no deletion of empty rooms takes it out
C31_JoinSurvivesRoomDeletion ==
    [][\A r \in RoomIds, u \in Users :
          /\ (last'.op = "join_ride" /\ last'.result = "joined_new"
                 /\ last'.ride = r /\ last'.arg = u)
             => InRoom(rooms', r, u)
          /\ (InRoom(rooms, r, u) /\ ~InRoom(rooms', r, u))
             => /\ last'.arg = u
                /\ last'.op \in DisconnectOps \cup {"leave_ride"}]_vars

\* a join has re-created the room of an accepted ride: the room made when
\* the ride was accepted had been deleted
C31_Witness ==
    /\ last.op = "join_ride"
    /\ last.result = "joined_new"
    /\ ~last.had
    /\ last.ride \in RideIds
    /\ rides[last.ride].status = "accepted"
    /\ InRoom(rooms, last.ride, last.arg)

\* C32: a joined_ride response carries the ride's current status and, when
\* the ride's driver has had a location update cached and broadcast for the
\* ride before the join, the coordinates of the most recent one
C32_JoinResumesState ==
    [][(/\ last'.op = "join_ride"
        /\ last'.result \in {"already", "joined_new", "joined_dup"}
        /\ last'.ride \in RideIds)
       => /\ last'.response.ride_status = rides[last'.ride].status
          /\ located[last'.ride].set
             => last'.response.last_driver_location = located[last'.ride]]_vars

\* C33: a read timeout ends the loop of a session marked dead and leaves a
\* live session waiting, unchanged; and when a session's loop ends, by a
\* timeout, by the client going away or by an error, its user is out of the
\* registry
C33_LoopEndDisconnects ==
    [][\A h \in Handles :
          /\ (last'.op = "receive_timeout" /\ last'.handle = h)
             => /\ (conn'[h].pc = "done") <=> ~conn[h].is_alive
                /\ conn[h].is_alive => (conn' = conn /\ connections' = connections)
          /\ (conn[h].pc = "loop" /\ conn'[h].pc = "done")
             => connections'[conn[h].user] = 0]_vars

\* a read timeout has ended the loop of a session that was registered and
\* marked dead
C33_Witness ==
    /\ last.op = "receive_timeout"
    /\ last.result = "break"
    /\ last.handle \in last.popped
    /\ conn[last.handle].pc = "done"
    /\ connections[last.arg] = 0

\* cancel_ride was called for ride r by the ride's rider or its driver
CancelAsked(r) ==
    /\ last'.op = "cancel_ride"
    /\ last'.ride = r
    /\ last'.result \in {"ok", "already"} \/ last'.detail = "trip_cancellation_disabled"

\* the ride is cancelled, its driver available, its queue entry gone and
\* ride_cancelled sent to every participant of its room
CancelDone(r) ==
    /\ rides'[r].status = "cancelled"
    /\ rides[r].driver # None => is_available'[rides[r].driver]
    /\ r \notin DOMAIN PENDING_RIDES_QUEUE'
    /\ last'.calls = {Msg(t, "ride_cancelled", None) : t \in get_room_participants(rooms, r)}

CancelNothing ==
    /\ UNCHANGED <<rides, is_available, PENDING_RIDES_QUEUE, rooms>>
    /\ last'.calls = {}

\* C34 as stated: a cancel_ride by the rider or the driver cancels a pending,
\* accepted or in_progress ride, and changes nothing on a completed or
\* cancelled one
C34_CancelAnyNonTerminal ==
    [][\A r \in RideIds :
          CancelAsked(r)
          => IF rides[r].status \in {"pending", "accepted", "in_progress"}
             THEN CancelDone(r) ELSE CancelNothing]_vars

\* C34 amended: ... cancels a pending or accepted ride, and an in_progress
\* ride when ALLOW_CANCELLATION_DURING_TRIP is true; an in_progress ride is
\* left as it is, and the request refused, when the setting is false
C34_CancelUnlessTripLocked ==
    [][\A r \in RideIds :
          CancelAsked(r)
          => IF \/ rides[r].status \in {"pending", "accepted"}
                \/ rides[r].status = "in_progress" /\ allow_trip_cancellation
             THEN CancelDone(r) /\ last'.result = "ok"
             ELSE IF rides[r].status = "in_progress"
             THEN CancelNothing /\ last'.result = "rejected"
             ELSE CancelNothing /\ last'.result = "already"]_vars

\* an in_progress ride has been cancelled, its driver freed and its room told
C34_Witness ==
    /\ last.op = "cancel_ride"
    /\ last.result = "ok"
    /\ last.from = "in_progress"
    /\ allow_trip_cancellation
    /\ rides[last.ride].status = "cancelled"
    /\ is_available[rides[last.ride].driver]
    /\ last.calls # {}

\* C35: for every registered session and every ride id, the session has the
\* ride in joined_rooms exactly when its user is a participant of the ride's
\* room (every state of this specification is between two operations)
C35_JoinedRoomsMatchRooms ==
    \A u \in Users :
        connections[u] # 0
        => \A r \in RoomIds :
              (r \in conn[connections[u]].joined_rooms) <=> InRoom(rooms, r, u)

\* C36: when the loop of a session ends while a newer session of the same
\* user is registered, the newer session stays registered, alive and open,
\* and the user stays in its rooms
C36_SupersededEndSparesSuccessor ==
    [][\A h \in Handles :
          (/\ last'.op \in {"disconnect", "receive_timeout"}
           /\ last'.handle = h
           /\ conn'[h].pc = "done"
           /\ connections[conn[h].user] \notin {0, h})
          => LET u == conn[h].user
                 g == connections[u]
             IN /\ connections'[u] = g
                /\ conn'[g].is_alive = conn[g].is_alive
                /\ g \notin closing' \ closing
                /\ \A r \in RoomIds : InRoom(rooms, r, u) => InRoom(rooms', r, u)]_vars

\* ------------------------------------------------------------------------
\* _cleanup_stale_connections, step by step: the list of stale users is
\* taken under _connections_lock, then disconnect is awaited for one user
\* after the other, the pass suspended at each websocket.close()
\* ------------------------------------------------------------------------
\* ride_socket.py:269-271: a user of the list is disconnected whatever the
\* connection registered for it looks like by then
snapshot_evicts(c, t) == TRUE

\* disconnect(u, "Heartbeat timeout") for the next user u of the list todo
SweepEvict(u, todo) ==
    LET S == IF connections[u] # 0 /\ snapshot_evicts(conn[connections[u]], now_s)
             THEN {u} ELSE {}
    IN
    /\ connections' = DisconnectRegs(connections, S)
    /\ conn' = DisconnectConn(connections, conn, S)
    /\ rooms' = DisconnectRooms(connections, conn, rooms, S)
    /\ closing' = closing \cup DisconnectClosing(connections, S)
    /\ sweep' = [pc |-> "pass", todo |-> todo \ {u},
                 wait |-> IF S = {} THEN 0 ELSE connections[u]]
    /\ last' = [NoOp EXCEPT !.op = "cleanup_pass", !.arg = u, !.pre = todo,
                            !.popped = DisconnectClosing(connections, S)]

\* the end of the pass: _cleanup_empty_rooms, and the loop sleeps again
SweepEnd ==
    /\ rooms' = [r \in {x \in DOMAIN rooms : rooms[x].participants # {}} |-> rooms[r]]
    /\ sweep' = NoSweep
    /\ last' = [NoOp EXCEPT !.op = "cleanup_pass", !.result = "done"]
    /\ UNCHANGED <<connections, conn, closing>>

\* the loop wakes up: the snapshot, and the first disconnect up to its close
cleanup_pass_begin ==
    /\ sweep.pc = "idle"
    /\ LET stale_users == {u \in Registered : is_stale(conn[connections[u]], now_s)}
       IN IF stale_users = {} THEN SweepEnd
          ELSE \E u \in stale_users : SweepEvict(u, stale_users)
    /\ UNCHANGED <<rideVars, pureVars, sendVars, scen, fails, located>>

\* the awaited close has returned: the next user of the list, or the end
cleanup_pass_next ==
    /\ sweep.pc = "pass"
    /\ sweep.wait \notin closing
    /\ IF sweep.todo = {} THEN SweepEnd
       ELSE \E u \in sweep.todo : SweepEvict(u, sweep.todo)
    /\ UNCHANGED <<rideVars, pureVars, sendVars, scen, fails, located>>

NextSweep ==
    \/ TickS
    \/ \E h \in Handles : handle_ping(h)
    \/ \E h \in Handles : handle_pong(h)
    \/ \E h \in Handles, r \in RoomIds : handle_join_ride(h, r)
    \/ \E h \in Handles, r \in RoomIds : handle_leave_ride(h, r)
    \/ \E h \in Handles : ws_end(h)
    \/ cleanup_pass_begin
    \/ cleanup_pass_next
    \/ \E h \in Handles : close_done(h)

SpecSweep == InitSend /\ [][NextSweep]_vars

\* C37: a session the cleanup pass disconnects is stale at the moment it is
\* disconnected
C37_EvictedWhenStale ==
    [][last'.op = "cleanup_pass" =>
          \A h \in last'.popped : is_stale(conn[h], now_s)]_vars

\* the rides in status accepted or in_progress that driver d is assigned to
AssignedTo(d) ==
    {r \in RideIds : rides[r].driver = d /\ rides[r].status \in {"accepted", "in_progress"}}

\* C38: a driver is assigned to at most one ride in status accepted or
\* in_progress, and a driver assigned to such a ride is unavailable
C38_OneRidePerBusyDriver ==
    \A d \in Drivers :
        /\ Cardinality(AssignedTo(d)) <= 1
        /\ AssignedTo(d) # {} => ~is_available[d]

\* user u is the driver assigned to ride r and a participant of its room
PartyDriver(u, r) ==
    /\ r \in RideIds
    /\ is_driver(u, r)
    /\ r \in DOMAIN rooms
    /\ u \in rooms[r].participants

\* C39: a location_update is broadcast to the room of ride r and overwrites
\* the room's cached driver location only when it comes from the session of
\* the driver assigned to ride r, a participant of the room
C39_OnlyAssignedDriverLocates ==
    [][(/\ last'.op = "location_update"
        /\ last'.result = "broadcast"
        /\ last'.ride \in DOMAIN rooms)
          => PartyDriver(last'.arg, last'.ride)]_vars

\* C40: an admitted session whose is_alive flag is false keeps it false
C40_DeadStaysDead ==
    [][\A h \in Handles :
          (conn[h].accepted /\ ~conn[h].is_alive) => ~conn'[h].is_alive]_vars

====
